---- MODULE Spec2Model ----
(***************************************************************************)
(* Model of the description generator for the Akeneo catalog (src/app.py): *)
(* the catalog client (existence check, detail fetch with the attribute    *)
(* resolver get_value, description update), the generation adapter         *)
(* (generate_description with its post-processing), the per-item task      *)
(* process_product_from_akeneo, the bulk run over the worker pool, the     *)
(* product search and the commit of the bulk results to the catalog.       *)
(*                                                                         *)
(* Texts are sequences of tokens.  A token is one character class of the   *)
(* strings the program handles:                                            *)
(*   "x" "y"  ordinary characters        "s"  a whitespace character       *)
(*   "F"      a code fence ```           "h"  the fence tag html / HTML    *)
(*   "E"      the word BŁĄD              "m"  em dash     "n"  en dash     *)
(*   "l"      the ellipsis character     "-"  hyphen      "."  full stop   *)
(* Python values are records [type, items]: a str has type "str" and its   *)
(* text as the only item, a list has type "list" and its elements as       *)
(* items, None has type "none" and no item.                                *)
(***************************************************************************)
EXTENDS Integers, Sequences, FiniteSets, TLC

(***************************************************************************)
(* Bounds of the model.                                                    *)
(***************************************************************************)
\* longest list of attribute entries of one catalog field
MaxEntries == 2
\* number of keys of a bulk run
MaxKeys == 2
\* number of tokens issued after which no further write is called
MaxCalls == 2
\* longest list of items in the answer to one search query
MaxItems == 2
\* number of keys of a run of the worker pool
PoolKeys == 6
\* largest limit of a search
MaxLimit == 3
\* the presses of the commit button after one bulk run
MaxPresses == 2
\* longest text of the provider
MaxText == 3

(***************************************************************************)
(* Python values.                                                          *)
(***************************************************************************)
Str(t) == [type |-> "str", items |-> <<t>>]

List(ts) == [type |-> "list", items |-> ts]

None == [type |-> "none", items |-> <<>>]

EmptyStr == Str(<<>>)

\* Python truthiness of a str, a list or None
Truthy(v) ==
  CASE v.type = "str" -> v.items[1] # <<>>
    [] v.type = "list" -> v.items # <<>>
    [] OTHER -> FALSE

\* Python's a or b
PyOr(a, b) == IF Truthy(a) THEN a ELSE b

IsList(v) == v.type = "list"

IsWs(c) == c = "s"

RECURSIVE LStrip(_)
LStrip(t) == IF t # <<>> /\ IsWs(Head(t)) THEN LStrip(Tail(t)) ELSE t

RECURSIVE RStrip(_)
RStrip(t) ==
  IF t # <<>> /\ IsWs(t[Len(t)]) THEN RStrip(SubSeq(t, 1, Len(t) - 1)) ELSE t

\* str.strip()
Strip(t) == RStrip(LStrip(t))

\* the substring test  c in t  for a one-token needle
Contains(t, c) == \E i \in 1..Len(t) : t[i] = c

(***************************************************************************)
(* Post-processing of the provider's answer.                               *)
(***************************************************************************)
\* the text with a leading fence tag html / HTML removed
DropTag(t) == IF t # <<>> /\ Head(t) = "h" THEN Tail(t) ELSE t

\* all but the last token
Front(t) == SubSeq(t, 1, Len(t) - 1)

\* strip_code_fences on a str, or on None when the provider gave no text
strip_code_fences(v) ==
  IF ~Truthy(v) THEN v
  ELSE
    LET text == v.items[1]
        t1 == LStrip(text)
        opens == t1 # <<>> /\ Head(t1) = "F"
        t2 == IF opens THEN RStrip(Tail(t1)) ELSE <<>>
        \* re.match of the whole text: fence, tag, body, fence
        full == opens /\ t2 # <<>> /\ t2[Len(t2)] = "F"
        \* re.sub of the opening fence
        sub1 == IF opens THEN LStrip(DropTag(Tail(t1))) ELSE text
        r1 == RStrip(sub1)
        \* re.sub of the closing fence
        sub2 == IF r1 # <<>> /\ r1[Len(r1)] = "F" THEN RStrip(Front(r1)) ELSE sub1
    IN IF full THEN Str(Strip(DropTag(Front(t2)))) ELSE Str(Strip(sub2))

RECURSIVE CleanText(_)
CleanText(t) ==
  IF t = <<>> THEN <<>>
  ELSE LET c == Head(t)
           r == IF c = "m" \/ c = "n" THEN <<"-">>
                ELSE IF c = "l" THEN <<".", ".", ".">>
                ELSE <<c>>
       IN r \o CleanText(Tail(t))

\* the cleaning that leaves the en dash in place
RECURSIVE CleanTextEmOnly(_)
CleanTextEmOnly(t) ==
  IF t = <<>> THEN <<>>
  ELSE LET c == Head(t)
           r == IF c = "m" THEN <<"-">>
                ELSE IF c = "l" THEN <<".", ".", ".">>
                ELSE <<c>>
       IN r \o CleanTextEmOnly(Tail(t))

\* the cleaning without  text.replace('–', '-')
clean_em_dash_only(v) == Str(CleanTextEmOnly(v.items[1]))

\* clean_ai_fingerprints of a str (text.replace of None raises)
clean_ai_fingerprints(v) == Str(CleanText(v.items[1]))

\* str(e) of the exceptions the program meets
ExcText(e) ==
  CASE e = "HTTPError" -> <<"x", "s", "x">>
    [] e = "ConnectionError" -> <<"x", "x">>
    [] e = "Timeout" -> <<"x", "s", "x", "x">>
    [] e = "AttributeError" -> <<"x", "x", "s", "x">>
    [] OTHER -> <<"x">>

\* f"BŁĄD: {str(e)}"
BladText(e) == <<"E", "x", "s">> \o ExcText(e)

(***************************************************************************)
(* generate_description.  out is what the provider call does: it returns   *)
(* a text (kind "text"), returns no text (kind "none"), raises (kind       *)
(* "exception") or times out (kind "timeout").                             *)
(***************************************************************************)
ProviderText(out) == IF out.kind = "text" THEN Str(out.text) ELSE None

generate_description(product_data, model, out) ==
  IF out.kind = "exception" THEN Str(BladText("APIError"))
  ELSE IF out.kind = "timeout" THEN Str(BladText("Timeout"))
  ELSE
    LET result == IF model = "gpt-5-nano"
                  THEN strip_code_fences(ProviderText(out))
                  ELSE strip_code_fences(ProviderText(out))
    IN IF result.type = "none" THEN Str(BladText("AttributeError"))
       ELSE clean_ai_fingerprints(result)

(***************************************************************************)
(* Reading the catalog.  A response of GET /products/{sku} is a record     *)
(* [fault, status, product]: fault names the exception of a request that   *)
(* got no response ("" when there is a response, else ConnectionError or   *)
(* Timeout), status is the HTTP status, product the decoded                *)
(* body [identifier, values].  values maps an attribute code to its list   *)
(* of entries [data, scope, locale]; "null" is JSON null, and data of type *)
(* "absent" is an entry without a data key.                                *)
(***************************************************************************)
Absent == [type |-> "absent", items |-> <<>>]

Channels == {"Bookland", "B2B"}

Scopes == {"null"} \cup Channels

Locales == {"null", "pl_PL", "en_US"}

\* val.get("data", "")
EntryData(val) == IF val.data.type = "absent" THEN EmptyStr ELSE val.data

EntryMatches(val, channel, locale) ==
  /\ (val.scope = "null" \/ val.scope = channel)
  /\ (val.locale = "null" \/ val.locale = locale)

\* the for loop of get_value from entry i on, and the fallback after it
RECURSIVE ScanEntries(_, _, _, _)
ScanEntries(attr_values, i, channel, locale) ==
  IF i > Len(attr_values) THEN EntryData(attr_values[1])
  ELSE IF EntryMatches(attr_values[i], channel, locale)
       THEN EntryData(attr_values[i])
       ELSE ScanEntries(attr_values, i + 1, channel, locale)

\* get_value without the fallback to the first entry
get_value_no_fallback(values, attr_name, channel, locale) ==
  IF attr_name \notin DOMAIN values THEN EmptyStr
  ELSE IF values[attr_name] = <<>> THEN EmptyStr
  ELSE IF \E i \in 1..Len(values[attr_name]) :
            EntryMatches(values[attr_name][i], channel, locale)
       THEN ScanEntries(values[attr_name], 1, channel, locale)
       ELSE EmptyStr

get_value(values, attr_name, channel, locale) ==
  IF attr_name \notin DOMAIN values THEN EmptyStr
  ELSE IF values[attr_name] = <<>> THEN EmptyStr
  ELSE ScanEntries(values[attr_name], 1, channel, locale)

\* the product_data dict of akeneo_get_product_details (the fields the
\* generation reads; ean, isbn, dimensions, age and category are read the
\* same way and used nowhere)
BuildProductData(product, channel, locale) ==
  LET gv(a) == get_value(product.values, a, channel, locale)
  IN [identifier |-> Str(product.identifier),
      title |-> PyOr(gv("name"), Str(product.identifier)),
      description |-> gv("description"),
      short_description |-> gv("short_description"),
      author |-> PyOr(gv("author"), gv("autor")),
      publisher |-> PyOr(gv("publisher"), gv("wydawnictwo")),
      year |-> PyOr(gv("year"), gv("rok_wydania")),
      pages |-> PyOr(gv("pages"), gv("liczba_stron")),
      cover_type |-> PyOr(gv("cover_type"), gv("oprawa"))]

NoProductData ==
  [identifier |-> EmptyStr, title |-> EmptyStr, description |-> EmptyStr,
   short_description |-> EmptyStr, author |-> EmptyStr, publisher |-> EmptyStr,
   year |-> EmptyStr, pages |-> EmptyStr, cover_type |-> EmptyStr]

\* r.raise_for_status() raises for the 4xx and 5xx statuses
RaisesForStatus(status) == status >= 400 /\ status < 600

\* akeneo_get_product_details answering None to every HTTP error status
get_product_details_none_on_error(resp, channel, locale) ==
  IF resp.fault # "" THEN [kind |-> "raise", exc |-> resp.fault, data |-> NoProductData]
  ELSE IF RaisesForStatus(resp.status)
       THEN [kind |-> "none", exc |-> "", data |-> NoProductData]
  ELSE [kind |-> "record", exc |-> "",
        data |-> BuildProductData(resp.product, channel, locale)]

\* akeneo_get_product_details: [kind, exc, data] with kind "record" (the
\* dict is returned), "none" (None is returned) or "raise" (exc is raised)
akeneo_get_product_details(resp, channel, locale) ==
  IF resp.fault # "" THEN [kind |-> "raise", exc |-> resp.fault, data |-> NoProductData]
  ELSE IF RaisesForStatus(resp.status)
       THEN IF resp.status = 404
            THEN [kind |-> "none", exc |-> "", data |-> NoProductData]
            ELSE [kind |-> "raise", exc |-> "HTTPError", data |-> NoProductData]
  ELSE [kind |-> "record", exc |-> "",
        data |-> BuildProductData(resp.product, channel, locale)]

(***************************************************************************)
(* process_product_from_akeneo: the per-item task.                         *)
(***************************************************************************)
\* 'Produkt nie znaleziony'
NotFoundText == <<"y", "s", "y", "s", "y">>

\* product_details['author'].strip() raises on anything but a str
PrepareRaises(details) == Truthy(details.author) /\ details.author.type # "str"

\* one line of details_parts: the label and the value formatted into it
DetailsPart(label, v) == [label |-> label, value |-> v]

DetailsParts(details) ==
  (IF Truthy(details.author)
   THEN <<DetailsPart("Autor", Str(Strip(details.author.items[1])))>> ELSE <<>>)
  \o (IF Truthy(details.publisher)
      THEN <<DetailsPart("Wydawnictwo", details.publisher)>> ELSE <<>>)
  \o (IF Truthy(details.year) THEN <<DetailsPart("Rok", details.year)>> ELSE <<>>)
  \o (IF Truthy(details.pages) THEN <<DetailsPart("Strony", details.pages)>> ELSE <<>>)
  \o (IF Truthy(details.cover_type)
      THEN <<DetailsPart("Oprawa", details.cover_type)>> ELSE <<>>)

\* the product_data dict handed to generate_description
ProductData(details) ==
  [title |-> details.title,
   author |-> details.author,
   details |-> DetailsParts(details),
   description |-> PyOr(details.description, details.short_description)]

NoGenInput == [title |-> EmptyStr, author |-> EmptyStr, details |-> <<>>,
               description |-> EmptyStr]

ErrorResult(sku, title, error) ==
  [sku |-> sku, title |-> title, description_html |-> EmptyStr,
   old_description |-> Absent, error |-> Str(error)]

SuccessResult(sku, details, html) ==
  [sku |-> sku, title |-> details.title, description_html |-> html,
   old_description |-> details.description, error |-> None]

\* the provider is not called: the task ends in the fetch or in the
\* preparation of product_data
EndsBeforeGenerate(resp, channel, locale) ==
  LET d == akeneo_get_product_details(resp, channel, locale)
  IN d.kind # "record" \/ PrepareRaises(d.data)

\* the body of the try block: [raised, exc, result]
ProcessBody(sku, resp, channel, locale, model, out) ==
  LET d == akeneo_get_product_details(resp, channel, locale)
      no == ErrorResult(sku, EmptyStr, <<>>)
  IN IF d.kind = "raise" THEN [raised |-> TRUE, exc |-> d.exc, result |-> no]
     ELSE IF d.kind = "none"
          THEN [raised |-> FALSE, exc |-> "",
                result |-> ErrorResult(sku, EmptyStr, NotFoundText)]
     ELSE IF PrepareRaises(d.data)
          THEN [raised |-> TRUE, exc |-> "AttributeError", result |-> no]
     ELSE LET description_html ==
                generate_description(ProductData(d.data), model, out)
          IN IF Contains(description_html.items[1], "E")
             THEN [raised |-> FALSE, exc |-> "",
                   result |-> ErrorResult(sku, d.data.title, description_html.items[1])]
             ELSE [raised |-> FALSE, exc |-> "",
                   result |-> SuccessResult(sku, d.data, description_html)]

\* the task without the handler  except Exception as e
process_product_unhandled(sku, resp, channel, locale, model, out) ==
  ProcessBody(sku, resp, channel, locale, model, out)

\* the task that refuses a found product without source description
process_product_gated(sku, resp, channel, locale, model, out) ==
  LET b == ProcessBody(sku, resp, channel, locale, model, out)
      d == akeneo_get_product_details(resp, channel, locale)
  IN IF b.raised
     THEN [raised |-> FALSE, exc |-> "",
           result |-> ErrorResult(sku, EmptyStr, ExcText(b.exc))]
     ELSE IF d.kind = "record"
             /\ ~Truthy(PyOr(d.data.description, d.data.short_description))
          THEN [raised |-> FALSE, exc |-> "",
                result |-> ErrorResult(sku, d.data.title, <<"x">>)]
     ELSE b

\* the try block with its handler  except Exception as e
process_product_from_akeneo(sku, resp, channel, locale, model, out) ==
  LET b == ProcessBody(sku, resp, channel, locale, model, out)
  IN IF b.raised
     THEN [raised |-> FALSE, exc |-> "",
           result |-> ErrorResult(sku, EmptyStr, ExcText(b.exc))]
     ELSE b

(***************************************************************************)
(* Writing to the catalog: the operators of akeneo_update_description.     *)
(***************************************************************************)
\* akeneo_get_token on a response of POST /api/oauth/v1/token, a record
\* [fault, status, has_token]: has_token says that the body is JSON with an
\* access_token; the token is returned, or the exception is raised
akeneo_get_token(resp) ==
  IF resp.fault # "" THEN [kind |-> "raise", exc |-> resp.fault]
  ELSE IF RaisesForStatus(resp.status) THEN [kind |-> "raise", exc |-> "HTTPError"]
  ELSE IF ~resp.has_token THEN [kind |-> "raise", exc |-> "KeyError"]
  ELSE [kind |-> "return", exc |-> ""]

\* akeneo_product_exists on a response of GET /products/{sku}: [kind, value]
\* with kind "return" or "raise" (requests.get raised)
akeneo_product_exists(resp) ==
  IF resp.fault # "" THEN [kind |-> "raise", exc |-> resp.fault, value |-> FALSE]
  ELSE [kind |-> "return", exc |-> "", value |-> (resp.status = 200)]

\* akeneo_get_attribute on a response of GET /attributes/{code}: the
\* metadata [scopable, localizable], or the exception raised
akeneo_get_attribute(resp) ==
  IF resp.fault # "" THEN [kind |-> "raise", exc |-> resp.fault, meta |-> resp.meta]
  ELSE IF RaisesForStatus(resp.status)
       THEN [kind |-> "raise", exc |-> "HTTPError", meta |-> resp.meta]
  ELSE [kind |-> "return", exc |-> "", meta |-> resp.meta]

\* the value with the two metadata flags taken for each other
ValueObjSwapped(data, meta, channel, locale) ==
  [data |-> data,
   scope |-> IF meta.localizable THEN channel ELSE "null",
   locale |-> IF meta.scopable THEN locale ELSE "null"]

\* value_obj_desc / value_obj_seo: the value written for an attribute
ValueObj(data, meta, channel, locale) ==
  [data |-> data,
   scope |-> IF meta.scopable THEN channel ELSE "null",
   locale |-> IF meta.localizable THEN locale ELSE "null"]

\* the verdict on the PATCH response
PatchResult(status) == IF status \in {200, 204} THEN "True" ELSE "RuntimeError"

\* str(e) of  RuntimeError(f"Błąd Akeneo ({r.status_code})")  for a PATCH
\* response with this status and this body
PatchError(status, body) == <<"Blad Akeneo (", ToString(status), ")">>

\* the body of the catalog's 422 answer to a PATCH: its validation message
PatchRefusal == "Property description expects a string as data"

(***************************************************************************)
(* Searching the catalog: akeneo_search_products (lines 289-369).  The     *)
(* characters of identifiers and titles are letters in two cases, ordered  *)
(* by code point as Python orders them.                                    *)
(***************************************************************************)
CodePoint(c) ==
  CASE c = "A" -> 65 [] c = "B" -> 66 [] c = "C" -> 67
    [] c = "a" -> 97 [] c = "b" -> 98 [] c = "c" -> 99
    [] OTHER -> 120

\* str.lower() of one character
LowerChar(c) ==
  CASE c = "A" -> "a" [] c = "B" -> "b" [] c = "C" -> "c" [] OTHER -> c

\* str.lower()
Lower(t) == [i \in 1..Len(t) |-> LowerChar(t[i])]

\* s < t of two str
RECURSIVE StrLess(_, _)
StrLess(s, t) ==
  IF t = <<>> THEN FALSE
  ELSE IF s = <<>> THEN TRUE
  ELSE IF CodePoint(s[1]) # CodePoint(t[1]) THEN CodePoint(s[1]) < CodePoint(t[1])
  ELSE StrLess(Tail(s), Tail(t))

\* the title of an item: the identifier, or the data of the first entry of
\* its name whose locale is the chosen one or null (lines 311-318)
RECURSIVE FirstName(_, _, _)
FirstName(name_values, locale, identifier) ==
  IF name_values = <<>> THEN Str(identifier)
  ELSE IF name_values[1].locale = locale \/ name_values[1].locale = "null"
       THEN (IF name_values[1].data = Absent THEN Str(identifier)
             ELSE name_values[1].data)
  ELSE FirstName(Tail(name_values), locale, identifier)

SearchTitle(item, locale) ==
  IF item.has_name THEN FirstName(item.name, locale, item.identifier)
  ELSE Str(item.identifier)

\* the summary stored in products_dict for an item
Summary(item, locale) ==
  [identifier |-> item.identifier, title |-> SearchTitle(item, locale)]

\* the position of identifier in the dict d, 0 when it is not a key
KeyIndex(d, identifier) ==
  IF \E i \in 1..Len(d) : d[i].identifier = identifier
  THEN CHOOSE i \in 1..Len(d) : d[i].identifier = identifier
  ELSE 0

\* products_dict[identifier] = {...}: a dict keeps the place of a key it has
DictPut(d, p) ==
  IF KeyIndex(d, p.identifier) = 0 THEN Append(d, p)
  ELSE [d EXCEPT ![KeyIndex(d, p.identifier)] = p]

\* the loop over the items of the identifier query (lines 309-326)
RECURSIVE MergeIdentifierItems(_, _, _)
MergeIdentifierItems(d, items, locale) ==
  IF items = <<>> THEN d
  ELSE MergeIdentifierItems(DictPut(d, Summary(items[1], locale)), Tail(items), locale)

\* the loop over the items of the name query (lines 340-360)
RECURSIVE MergeNameItems(_, _, _)
MergeNameItems(d, items, locale) ==
  IF items = <<>> THEN d
  ELSE IF KeyIndex(d, items[1].identifier) # 0
       THEN MergeNameItems(d, Tail(items), locale)
  ELSE MergeNameItems(Append(d, Summary(items[1], locale)), Tail(items), locale)

\* the key of the sort: x['title'].lower()
SortKey(p) == Lower(p.title.items[1])

\* p placed into the sorted list l behind every element that is not greater
RECURSIVE InsertSorted(_, _)
InsertSorted(l, p) ==
  IF l = <<>> THEN <<p>>
  ELSE IF StrLess(SortKey(p), SortKey(l[1])) THEN <<p>> \o l
  ELSE <<l[1]>> \o InsertSorted(Tail(l), p)

\* products.sort(key=lambda x: x['title'].lower()), a stable sort
RECURSIVE SortByTitle(_)
SortByTitle(l) ==
  IF l = <<>> THEN <<>>
  ELSE InsertSorted(SortByTitle(Front(l)), l[Len(l)])

\* products[:limit]
Take(l, limit) == SubSeq(l, 1, IF Len(l) < limit THEN Len(l) ELSE limit)

\* a request of the search failed: requests.get raised, or raise_for_status
SearchRequestFails(r) == r.fault # "" \/ RaisesForStatus(r.status)

\* the search that returns every merged product
search_products_uncapped(r1, r2, limit, locale) ==
  IF SearchRequestFails(r1) \/ SearchRequestFails(r2) THEN <<>>
  ELSE LET d == MergeNameItems(MergeIdentifierItems(<<>>, r1.items, locale),
                               r2.items, locale)
       IN IF \E i \in 1..Len(d) : d[i].title.type # "str" THEN <<>>
          ELSE SortByTitle(d)

\* akeneo_search_products on the answers r1, r2 of the two queries: the
\* list returned; every exception ends in  return []
akeneo_search_products(r1, r2, limit, locale) ==
  IF SearchRequestFails(r1) \/ SearchRequestFails(r2) THEN <<>>
  ELSE LET d == MergeNameItems(MergeIdentifierItems(<<>>, r1.items, locale),
                               r2.items, locale)
       IN IF \E i \in 1..Len(d) : d[i].title.type # "str" THEN <<>>
          ELSE Take(SortByTitle(d), limit)

(***************************************************************************)
(* State.                                                                  *)
(***************************************************************************)
VARIABLES
  \* one run of the fetch and preparation stages of process_product_from_akeneo
  f_resp,      \* the catalog's response to the detail request
  f_channel,   \* the channel chosen in the sidebar
  f_locale,    \* the locale chosen in the sidebar
  f_pc,        \* "fetch", "fetched", "generate", "raised", "generated", "returned"
  f_details,   \* what akeneo_get_product_details did
  f_input,     \* the product_data handed to generate_description
  f_model,     \* model_choice
  f_out,       \* what the provider call did
  f_html,      \* what generate_description returned
  f_result     \* the dict the task returned

fetch_vars == <<f_resp, f_channel, f_locale, f_pc, f_details, f_input, f_model,
                f_out, f_html, f_result>>

VARIABLES
  \* the catalog and one call of akeneo_update_description after another
  present,     \* the keys the catalog holds
  u_pc,        \* "idle", "token", "exists", "attr_desc", "attr_seo", "patch", "done"
  u_sku,       \* the key to update
  u_channel,   \* the channel of the call
  u_locale,    \* the locale of the call
  u_exists,    \* the existence request: its status and what the check did
  u_meta,      \* the metadata answered for description and for opisy_seo
  u_payload,   \* payload_values: attribute code -> the value to write
  u_seo,       \* the metadata request for opisy_seo: "pending", "ok", "failed"
  u_patch,     \* the PATCH request of this call, once sent
  u_result,    \* "", "True", or the exception the call raised
  u_message    \* str(e) of that exception

update_vars == <<present, u_pc, u_sku, u_channel, u_locale, u_exists, u_meta,
                 u_payload, u_seo, u_patch, u_result, u_message>>

VARIABLES
  \* the bulk run (tab 2)
  bulk_selected_products,  \* st.session_state: the keys in the basket
  bulk_results,            \* st.session_state: the stored results
  b_pc,                    \* the script: "start", "stopped", "idle", "token", "submit",
                           \* "as_completed", "collect", "done", "failed"
  token_resp,              \* the answer of the token endpoint to the run
  skus,                    \* list(bulk_selected_products.keys())
  task,                    \* the future of each key and the position of its task
  done_order,              \* the keys of the futures that are done, in that order
  snap,                    \* how many futures were done when as_completed began
  results_temp,            \* the results collected so far
  progress,                \* the count last shown on the progress bar
  b_requests               \* the requests the run has sent: [kind, sku]

bulk_vars == <<bulk_selected_products, bulk_results, b_pc, token_resp, skus, task,
               done_order, snap, results_temp, progress, b_requests>>

VARIABLES
  \* what the calls share: the token endpoint and the catalog's content
  tokens_issued,  \* the tokens the token endpoint has issued
  written         \* the keys whose description a PATCH of the app has set

shared_vars == <<tokens_issued, written>>

VARIABLES
  \* one call of akeneo_search_products
  s_pc,        \* "call" or "returned"
  s_r1,        \* the answer to the identifier query
  s_r2,        \* the answer to the name query
  s_limit,     \* the limit argument
  s_results    \* the list returned

search_vars == <<s_pc, s_r1, s_r2, s_limit, s_results>>

VARIABLES
  \* the commit of the bulk results (button "Wyślij wszystkie pomyślne do PIM")
  c_pc,           \* "idle", "loop", "calling", "done"
  c_i,            \* the position of the loop in successful, from 1
  success_count,  \* the calls that returned
  error_count,    \* the calls that raised
  error_msgs,     \* the messages of the calls that raised
  c_calls,        \* the keys akeneo_update_description was called for, in order
  c_presses       \* the presses of the button since the results were stored

commit_vars == <<c_pc, c_i, success_count, error_count, error_msgs, c_calls,
                 c_presses>>

VARIABLES
  \* the worker pool of a bulk run, without the content of the tasks
  p_pc,       \* the handler: "submit", "collect", "left"
  p_skus,     \* skus
  p_futures,  \* the keys of the submitted futures, in the order of submission
  p_task      \* the position of the task of each key

pool_vars == <<p_pc, p_skus, p_futures, p_task>>

\* the groups of the specifications that follow the first three
rest_vars == <<search_vars, commit_vars, pool_vars>>

vars == <<fetch_vars, update_vars, bulk_vars, shared_vars, rest_vars>>

(***************************************************************************)
(* Inputs.                                                                 *)
(***************************************************************************)
SeqsUpTo(S, n) == UNION {[1..k -> S] : k \in 0..n}

DataOptions == {Str(<<"x">>), List(<< <<"x">>, <<"y">> >>), Absent}

Entries == [data : DataOptions, scope : Scopes, locale : Locales]

EntryLists == SeqsUpTo(Entries, MaxEntries)

\* the attributes one response carries a value list for
FocusAttrs == {"name", "description", "author"}

NoProduct == [identifier |-> <<>>, values |-> <<>>]

Response(fault, status, product) ==
  [fault |-> fault, status |-> status, product |-> product]

FailedResponses ==
  {Response("", st, NoProduct) : st \in {404, 401, 500}}
  \cup {Response(f, 0, NoProduct) : f \in {"ConnectionError", "Timeout"}}

FetchResponses ==
  FailedResponses
  \cup {Response("", 200, [identifier |-> <<"x", "x">>, values |-> (a :> l)]) :
          a \in FocusAttrs, l \in EntryLists}

NoDetails == [kind |-> "pending", exc |-> "", data |-> NoProductData]

(***************************************************************************)
(* Values of the write path, and its state while it is not running.        *)
(***************************************************************************)
Skus == 1..MaxKeys

NoMeta == [scopable |-> FALSE, localizable |-> FALSE]

Metas == [scopable : BOOLEAN, localizable : BOOLEAN]

NoExists == [status |-> 0, kind |-> "pending", value |-> FALSE]

NoPatch == [sent |-> FALSE, present |-> FALSE, status |-> 0, body |-> ""]

NoValue == [data |-> EmptyStr, scope |-> "null", locale |-> "null"]

NoPayload == [a \in {"description", "opisy_seo"} |-> NoValue]

NoMetas == [a \in {"description", "opisy_seo"} |-> NoMeta]

\* the html written: the generated description
HtmlToWrite == Str(<<"x", "x">>)

\* data: True of the SEO flag
PyTrue == Str(<<"y">>)

UpdateIdle ==
  /\ present = {}
  /\ u_pc = "off"
  /\ u_sku = 1
  /\ u_channel = "Bookland"
  /\ u_locale = "pl_PL"
  /\ u_exists = NoExists
  /\ u_meta = NoMetas
  /\ u_payload = <<>>
  /\ u_seo = "pending"
  /\ u_patch = NoPatch
  /\ u_result = ""
  /\ u_message = <<>>

(***************************************************************************)
(* Values of the bulk run, and its state while it is not running.          *)
(***************************************************************************)
\* max_workers of the ThreadPoolExecutor
max_workers == 5

\* the sidebar's choices during a bulk run
BulkChannel == "Bookland"

BulkLocale == "pl_PL"

ModelChoice == "gpt-5-nano"

NoOutcome == [kind |-> "none", text |-> <<>>]

NoResult == ErrorResult(0, EmptyStr, <<>>)

\* a future not yet submitted
NoTask == [pc |-> "none", stage |-> "", generated |-> FALSE, raised |-> FALSE,
           resp |-> Response("", 0, NoProduct), result |-> NoResult]

\* no answer of the token endpoint yet
NoTokenAnswer == [fault |-> "", status |-> 0, has_token |-> FALSE]

BulkIdle ==
  /\ bulk_selected_products = {}
  /\ bulk_results = <<>>
  /\ b_pc = "off"
  /\ token_resp = NoTokenAnswer
  /\ skus = <<>>
  /\ task = [k \in Skus |-> NoTask]
  /\ done_order = <<>>
  /\ snap = 0
  /\ results_temp = <<>>
  /\ progress = 0
  /\ b_requests = {}

(***************************************************************************)
(* Values of the search, and its state while it is not running.            *)
(***************************************************************************)
\* the locale chosen in the sidebar during a search
SearchLocale == "pl_PL"

\* an item of a search answer: its identifier and the entries of its name
SearchItem(identifier, has_name, name) ==
  [identifier |-> identifier, has_name |-> has_name, name |-> name]

NameEntry(locale, data) == [locale |-> locale, data |-> data]

SearchItems ==
  {SearchItem(<<"a">>, FALSE, <<>>),
   SearchItem(<<"b">>, FALSE, <<>>),
   SearchItem(<<"a">>, TRUE, <<NameEntry("pl_PL", Str(<<"C">>))>>),
   SearchItem(<<"b">>, TRUE, <<NameEntry("en_US", Str(<<"a">>)),
                               NameEntry("null", Absent)>>),
   SearchItem(<<"c">>, TRUE, <<NameEntry("null", Str(<<"A">>))>>),
   SearchItem(<<"c">>, TRUE, <<NameEntry("pl_PL", List(<< <<"a">>, <<"b">> >>))>>)}

SearchAnswer(fault, status, items) ==
  [fault |-> fault, status |-> status, items |-> items]

NoAnswer == SearchAnswer("", 0, <<>>)

\* the answers of the product search endpoint to one query
SearchAnswers ==
  {SearchAnswer("", 200, l) : l \in SeqsUpTo(SearchItems, MaxItems)}
  \cup {SearchAnswer("", 500, <<>>), SearchAnswer("Timeout", 0, <<>>)}

SearchIdle ==
  /\ s_pc = "off"
  /\ s_r1 = NoAnswer
  /\ s_r2 = NoAnswer
  /\ s_limit = 1
  /\ s_results = <<>>

SharedIdle ==
  /\ tokens_issued = 0
  /\ written = {}

CommitIdle ==
  /\ c_pc = "off"
  /\ c_i = 1
  /\ success_count = 0
  /\ error_count = 0
  /\ error_msgs = <<>>
  /\ c_calls = <<>>
  /\ c_presses = 0

\* the keys of the pool
PoolSkus == 1..PoolKeys

PoolIdle ==
  /\ p_pc = "off"
  /\ p_skus = <<>>
  /\ p_futures = <<>>
  /\ p_task = [k \in PoolSkus |-> "none"]

\* the specifications that follow the first three are not running
RestIdle == SearchIdle /\ CommitIdle /\ PoolIdle

(***************************************************************************)
(* The fetch and preparation stages of one task (lines 767-800).           *)
(***************************************************************************)
FetchIdle ==
  /\ f_resp = Response("", 0, NoProduct)
  /\ f_channel = "Bookland"
  /\ f_locale = "pl_PL"
  /\ f_pc = "off"
  /\ f_details = NoDetails
  /\ f_input = NoGenInput
  /\ f_model = ModelChoice
  /\ f_out = NoOutcome
  /\ f_html = None
  /\ f_result = NoResult

FetchInit ==
  /\ UpdateIdle
  /\ BulkIdle
  /\ SharedIdle
  /\ RestIdle
  /\ f_resp \in FetchResponses
  /\ f_channel \in Channels
  /\ f_locale = "pl_PL"
  /\ f_pc = "fetch"
  /\ f_details = NoDetails
  /\ f_input = NoGenInput
  /\ f_model = ModelChoice
  /\ f_out = NoOutcome
  /\ f_html = None
  /\ f_result = NoResult

\* product_details = akeneo_get_product_details(sku, token, channel, locale)
FetchStep ==
  /\ f_pc = "fetch"
  /\ f_details' = akeneo_get_product_details(f_resp, f_channel, f_locale)
  /\ f_pc' = "fetched"
  /\ UNCHANGED <<f_resp, f_channel, f_locale, f_input, f_model, f_out, f_html,
                 f_result, update_vars, bulk_vars, shared_vars, rest_vars>>

\* details_parts and product_data are built, or .strip() raises
PrepareStep ==
  /\ f_pc = "fetched"
  /\ f_details.kind = "record"
  /\ IF PrepareRaises(f_details.data)
     THEN f_pc' = "raised" /\ f_input' = f_input
     ELSE f_pc' = "generate" /\ f_input' = ProductData(f_details.data)
  /\ UNCHANGED <<f_resp, f_channel, f_locale, f_details, f_model, f_out, f_html,
                 f_result, update_vars, bulk_vars, shared_vars, rest_vars>>

FetchNext == FetchStep \/ PrepareStep

SpecFetch == FetchInit /\ [][FetchNext]_vars

(***************************************************************************)
(* One run of process_product_from_akeneo (lines 767-827) with the         *)
(* generation in it (lines 491-708), for found products with source        *)
(* descriptions of different lengths and for every short provider text.    *)
(***************************************************************************)
\* the characters of the provider's texts
Tokens == {"x", "s", "F", "h", "E", "m", "n", "l"}

Texts == SeqsUpTo(Tokens, MaxText)

\* what the provider call does: a text, no text, an exception, a timeout
GenOutcomes ==
  {[kind |-> "text", text |-> t] : t \in Texts}
  \cup {[kind |-> k, text |-> <<>>] : k \in {"none", "exception", "timeout"}}

\* the models of the sidebar: the responses branch and the chat branch
GenModels == {"gpt-5-nano", "gpt-4o"}

\* a source description of 300 characters
LongDescription == [i \in 1..300 |-> "x"]

\* the source material of a product, <<description, short_description>>:
\* none at all, a short description only, a description of 3 characters, a
\* description of 300
SourceDescriptions ==
  {<<EmptyStr, EmptyStr>>, <<EmptyStr, Str(<<"x">>)>>,
   <<Str(<<"x", "s", "x">>), EmptyStr>>, <<Str(LongDescription), EmptyStr>>}

Value(data) == <<[data |-> data, scope |-> "null", locale |-> "null"]>>

GenProduct(description, short_description, author) ==
  [identifier |-> <<"x", "x">>,
   values |-> ("name" :> Value(Str(<<"x">>)))
          @@ ("description" :> Value(description))
          @@ ("short_description" :> Value(short_description))
          @@ ("author" :> Value(author))]

GenResponses ==
  {Response("", 200, GenProduct(d[1], d[2], a)) :
     d \in SourceDescriptions,
     a \in {Str(<<"s", "x">>), List(<< <<"x">>, <<"y">> >>)}}
  \cup {Response("", 404, NoProduct), Response("Timeout", 0, NoProduct)}

GenInit ==
  /\ UpdateIdle
  /\ BulkIdle
  /\ SharedIdle
  /\ RestIdle
  /\ f_resp \in GenResponses
  /\ f_channel = BulkChannel
  /\ f_locale = BulkLocale
  /\ f_pc = "fetch"
  /\ f_details = NoDetails
  /\ f_input = NoGenInput
  /\ f_model = ModelChoice
  /\ f_out = NoOutcome
  /\ f_html = None
  /\ f_result = NoResult

\* description_html = generate_description(product_data, client, model,
\* style_variant), with the provider call in it
GenerateStep ==
  /\ f_pc = "generate"
  /\ \E model \in GenModels, out \in GenOutcomes :
       /\ f_model' = model
       /\ f_out' = out
       /\ f_html' = generate_description(f_input, model, out)
  /\ f_pc' = "generated"
  /\ UNCHANGED <<f_resp, f_channel, f_locale, f_details, f_input, f_result,
                 update_vars, bulk_vars, shared_vars, rest_vars>>

\* the task returns its dict: the not-found dict, the dict of the handler
\* except Exception, the error dict of the marker test or the success dict
ReturnStep ==
  /\ \/ f_pc \in {"generated", "raised"}
     \/ f_pc = "fetched" /\ f_details.kind # "record"
  /\ f_result' = process_product_from_akeneo(1, f_resp, f_channel, f_locale,
                                             f_model, f_out).result
  /\ f_pc' = "returned"
  /\ UNCHANGED <<f_resp, f_channel, f_locale, f_details, f_input, f_model, f_out,
                 f_html, update_vars, bulk_vars, shared_vars, rest_vars>>

GenNext ==
  \/ FetchStep
  \/ PrepareStep
  \/ GenerateStep
  \/ ReturnStep

SpecGenerate == GenInit /\ [][GenNext]_vars

(***************************************************************************)
(* One call of akeneo_search_products (lines 289-369).                     *)
(***************************************************************************)
SearchInit ==
  /\ FetchIdle
  /\ UpdateIdle
  /\ BulkIdle
  /\ SharedIdle
  /\ CommitIdle
  /\ PoolIdle
  /\ s_pc = "call"
  /\ s_r1 \in SearchAnswers
  /\ s_r2 \in SearchAnswers
  /\ s_limit \in 1..MaxLimit
  /\ s_results = <<>>

\* results = akeneo_search_products(search_query, token, limit, locale)
SearchCall ==
  /\ s_pc = "call"
  /\ s_results' = akeneo_search_products(s_r1, s_r2, s_limit, SearchLocale)
  /\ s_pc' = "returned"
  /\ UNCHANGED <<s_r1, s_r2, s_limit, fetch_vars, update_vars, bulk_vars,
                 shared_vars, commit_vars, pool_vars>>

SearchNext == SearchCall

SpecSearch == SearchInit /\ [][SearchNext]_vars

(***************************************************************************)
(* akeneo_update_description (lines 442-485), one request at a time, with  *)
(* the catalog as its environment: the detail endpoint answers 200 for a   *)
(* key the catalog holds and 404 for one it does not, or fails; the PATCH  *)
(* endpoint updates a key the catalog holds and creates one it does not    *)
(* (which is why the code checks the existence first); another actor may   *)
(* remove a key at any moment.                                             *)
(***************************************************************************)
UpdateInit ==
  /\ FetchIdle
  /\ BulkIdle
  /\ RestIdle
  /\ tokens_issued = 0
  /\ written = {}
  /\ present \in SUBSET Skus
  /\ u_pc = "idle"
  /\ u_sku = 1
  /\ u_channel = "Bookland"
  /\ u_locale = "pl_PL"
  /\ u_exists = NoExists
  /\ u_meta = NoMetas
  /\ u_payload = <<>>
  /\ u_seo = "pending"
  /\ u_patch = NoPatch
  /\ u_result = ""
  /\ u_message = <<>>

\* the call akeneo_update_description(sku, html, channel, locale)
UpdateCall ==
  /\ u_pc \in {"idle", "done"}
  /\ tokens_issued < MaxCalls
  /\ \E sku \in Skus, channel \in Channels :
       /\ u_sku' = sku
       /\ u_channel' = channel
  /\ u_pc' = "token"
  /\ u_exists' = NoExists
  /\ u_meta' = NoMetas
  /\ u_payload' = <<>>
  /\ u_seo' = "pending"
  /\ u_patch' = NoPatch
  /\ u_result' = ""
  /\ u_message' = <<>>
  /\ UNCHANGED <<present, u_locale, fetch_vars, bulk_vars, shared_vars, rest_vars>>

\* str(e) of an exception raised before the PATCH
ExceptionMessage(exc, sku) ==
  IF exc = "ValueError"
  THEN <<"Produkt '", ToString(sku), "' nie istnieje w Akeneo.">>
  ELSE <<exc>>

\* the call ends with exception exc
UpdateRaise(exc) ==
  /\ u_pc' = "done"
  /\ u_result' = exc
  /\ u_message' = ExceptionMessage(exc, u_sku)

\* the call goes on to its next request
UpdateGoes(pc) ==
  /\ u_pc' = pc
  /\ UNCHANGED <<u_result, u_message>>

\* the answers of the token endpoint: the token with 200, a refusal of the
\* credentials, a server error, an answer without a token, or no answer
TokenAnswers ==
  {[fault |-> "", status |-> 200, has_token |-> TRUE],
   [fault |-> "", status |-> 401, has_token |-> FALSE],
   [fault |-> "", status |-> 500, has_token |-> FALSE],
   [fault |-> "", status |-> 204, has_token |-> FALSE],
   [fault |-> "Timeout", status |-> 0, has_token |-> FALSE]}

\* the tokens issued once the token endpoint has given this answer
TokensAfter(resp) ==
  IF resp.fault = "" /\ resp.status = 200 THEN tokens_issued + 1 ELSE tokens_issued

\* token = akeneo_get_token(): a request to the token endpoint
UpdateToken ==
  /\ u_pc = "token"
  /\ \E resp \in TokenAnswers :
       /\ tokens_issued' = TokensAfter(resp)
       /\ IF akeneo_get_token(resp).kind = "return" THEN UpdateGoes("exists")
          ELSE UpdateRaise(akeneo_get_token(resp).exc)
  /\ UNCHANGED <<present, u_sku, u_channel, u_locale, u_exists, u_meta,
                 u_payload, u_seo, u_patch, written, fetch_vars, bulk_vars,
                 rest_vars>>

\* the answers the detail endpoint can give for sku
DetailAnswers(sku) ==
  {Response("", IF sku \in present THEN 200 ELSE 404, NoProduct),
   Response("", 401, NoProduct), Response("", 500, NoProduct),
   Response("Timeout", 0, NoProduct)}

\* the existence request without the test of its answer
UpdateExistsUnchecked ==
  /\ u_pc = "exists"
  /\ \E resp \in DetailAnswers(u_sku) :
       LET ex == akeneo_product_exists(resp)
       IN /\ u_exists' = [status |-> resp.status, kind |-> ex.kind, value |-> ex.value]
          /\ IF ex.kind = "raise" THEN UpdateRaise(ex.exc)
             ELSE UpdateGoes("attr_desc")
  /\ UNCHANGED <<present, u_sku, u_channel, u_locale, u_meta, u_payload,
                 u_seo, u_patch, shared_vars, fetch_vars, bulk_vars, rest_vars>>

\* if not akeneo_product_exists(sku, token): raise ValueError
UpdateExists ==
  /\ u_pc = "exists"
  /\ \E resp \in DetailAnswers(u_sku) :
       LET ex == akeneo_product_exists(resp)
       IN /\ u_exists' = [status |-> resp.status, kind |-> ex.kind, value |-> ex.value]
          /\ IF ex.kind = "raise" THEN UpdateRaise(ex.exc)
             ELSE IF ~ex.value THEN UpdateRaise("ValueError")
             ELSE UpdateGoes("attr_desc")
  /\ UNCHANGED <<present, u_sku, u_channel, u_locale, u_meta, u_payload,
                 u_seo, u_patch, shared_vars, fetch_vars, bulk_vars, rest_vars>>

\* the answers of the attribute metadata endpoint
MetaAnswers ==
  {[fault |-> "", status |-> 200, meta |-> m] : m \in Metas}
  \cup {[fault |-> "", status |-> 404, meta |-> NoMeta],
        [fault |-> "Timeout", status |-> 0, meta |-> NoMeta]}

\* attr_desc = akeneo_get_attribute("description", token); value_obj_desc;
\* payload_values = {"description": [value_obj_desc]}
UpdateAttrDesc ==
  /\ u_pc = "attr_desc"
  /\ \E resp \in MetaAnswers :
       LET a == akeneo_get_attribute(resp)
       IN IF a.kind = "raise"
          THEN /\ UpdateRaise(a.exc)
               /\ UNCHANGED <<u_meta, u_payload>>
          ELSE /\ u_meta' = [u_meta EXCEPT !["description"] = a.meta]
               /\ u_payload' = ("description" :>
                    ValueObj(HtmlToWrite, a.meta, u_channel, u_locale))
               /\ UpdateGoes("attr_seo")
  /\ UNCHANGED <<present, u_sku, u_channel, u_locale, u_exists, u_seo, u_patch,
                 shared_vars, fetch_vars, bulk_vars, rest_vars>>

\* the opisy_seo step without its try/except
UpdateAttrSeoFatal ==
  /\ u_pc = "attr_seo"
  /\ \E resp \in MetaAnswers :
       LET a == akeneo_get_attribute(resp)
       IN IF a.kind = "raise"
          THEN /\ u_seo' = "failed"
               /\ UpdateRaise(a.exc)
               /\ UNCHANGED <<u_meta, u_payload>>
          ELSE /\ u_seo' = "ok"
               /\ u_meta' = [u_meta EXCEPT !["opisy_seo"] = a.meta]
               /\ u_payload' = u_payload @@ ("opisy_seo" :>
                    ValueObj(PyTrue, a.meta, u_channel, u_locale))
               /\ UpdateGoes("patch")
  /\ UNCHANGED <<present, u_sku, u_channel, u_locale, u_exists, u_patch,
                 shared_vars, fetch_vars, bulk_vars, rest_vars>>

\* try: attr_seo = akeneo_get_attribute("opisy_seo", token) ... except: pass
UpdateAttrSeo ==
  /\ u_pc = "attr_seo"
  /\ \E resp \in MetaAnswers :
       LET a == akeneo_get_attribute(resp)
       IN IF a.kind = "raise"
          THEN /\ u_seo' = "failed"
               /\ UNCHANGED <<u_meta, u_payload>>
          ELSE /\ u_seo' = "ok"
               /\ u_meta' = [u_meta EXCEPT !["opisy_seo"] = a.meta]
               /\ u_payload' = u_payload @@ ("opisy_seo" :>
                    ValueObj(PyTrue, a.meta, u_channel, u_locale))
  /\ u_pc' = "patch"
  /\ UNCHANGED <<present, u_sku, u_channel, u_locale, u_exists, u_patch,
                 u_result, u_message, shared_vars, fetch_vars, bulk_vars,
                 rest_vars>>

\* r = requests.patch(url, ...): the catalog updates the key it holds,
\* creates the key it does not hold (201), or refuses; or no answer comes
UpdatePatch ==
  /\ u_pc = "patch"
  /\ \E answer \in {"applied", "refused", "fault"} :
       LET status == IF answer = "applied"
                     THEN (IF u_sku \in present THEN 204 ELSE 201)
                     ELSE IF answer = "refused" THEN 422 ELSE 0
           body == IF answer = "refused" THEN PatchRefusal ELSE ""
       IN /\ u_patch' = [sent |-> TRUE, present |-> u_sku \in present,
                         status |-> status, body |-> body]
          /\ present' = IF answer = "applied" THEN present \cup {u_sku} ELSE present
          /\ written' = IF answer = "applied" THEN written \cup {u_sku} ELSE written
          /\ u_result' = IF answer = "fault" THEN "Timeout" ELSE PatchResult(status)
          /\ u_message' = IF answer = "fault" THEN ExceptionMessage("Timeout", u_sku)
                          ELSE IF PatchResult(status) = "True" THEN <<>>
                          ELSE PatchError(status, body)
  /\ u_pc' = "done"
  /\ UNCHANGED <<u_sku, u_channel, u_locale, u_exists, u_meta, u_payload, u_seo,
                 tokens_issued, fetch_vars, bulk_vars, rest_vars>>

\* another user of the catalog removes a product
RemoveProduct ==
  /\ u_pc # "off"
  /\ \E sku \in present :
       /\ present' = present \ {sku}
       /\ written' = written \ {sku}
  /\ UNCHANGED <<u_pc, u_sku, u_channel, u_locale, u_exists, u_meta, u_payload,
                 u_seo, u_patch, u_result, u_message, tokens_issued, fetch_vars,
                 bulk_vars, rest_vars>>

UpdateNext ==
  \/ UpdateCall
  \/ UpdateToken
  \/ UpdateExists
  \/ UpdateAttrDesc
  \/ UpdateAttrSeo
  \/ UpdatePatch
  \/ RemoveProduct

SpecUpdate == UpdateInit /\ [][UpdateNext]_vars

(***************************************************************************)
(* The commit of the bulk results (lines 1457-1506): the loop over the     *)
(* results without error, one call of akeneo_update_description per turn.  *)
(***************************************************************************)
\* successful = [r for r in results if not r['error']]
successful == SelectSeq(bulk_results, LAMBDA r : ~Truthy(r.error))

\* the stored results of a finished bulk run over n keys
StoredResults(n) ==
  {q \in [1..n -> {"success", "error"}] : \E i \in 1..n : q[i] = "success"}

ResultOf(k, kind) ==
  IF kind = "success" THEN SuccessResult(k, NoProductData, HtmlToWrite)
  ELSE ErrorResult(k, EmptyStr, BladText("Timeout"))

CommitInit ==
  /\ FetchIdle
  /\ SearchIdle
  /\ PoolIdle
  /\ tokens_issued = 0
  /\ written = {}
  /\ present \in SUBSET Skus
  /\ u_pc = "idle"
  /\ u_sku = 1
  /\ u_channel = BulkChannel
  /\ u_locale = BulkLocale
  /\ u_exists = NoExists
  /\ u_meta = NoMetas
  /\ u_payload = <<>>
  /\ u_seo = "pending"
  /\ u_patch = NoPatch
  /\ u_result = ""
  /\ u_message = <<>>
  /\ \E n \in 1..MaxKeys : \E q \in StoredResults(n) :
       bulk_results = [i \in 1..n |-> ResultOf(i, q[i])]
  /\ bulk_selected_products = {bulk_results[i].sku : i \in 1..Len(bulk_results)}
  /\ b_pc = "done"
  /\ token_resp = NoTokenAnswer
  /\ skus = <<>>
  /\ task = [k \in Skus |-> NoTask]
  /\ done_order = <<>>
  /\ snap = 0
  /\ results_temp = <<>>
  /\ progress = 0
  /\ b_requests = {}
  /\ c_pc = "idle"
  /\ c_i = 1
  /\ success_count = 0
  /\ error_count = 0
  /\ error_msgs = <<>>
  /\ c_calls = <<>>
  /\ c_presses = 0

\* the button: success_count = 0, error_count = 0, error_msgs = []
CommitButton ==
  /\ c_pc = "idle"
  /\ successful # <<>>
  /\ c_presses' = c_presses + 1
  /\ c_pc' = "loop"
  /\ c_i' = 1
  /\ success_count' = 0
  /\ error_count' = 0
  /\ error_msgs' = <<>>
  /\ c_calls' = <<>>
  /\ UNCHANGED <<fetch_vars, update_vars, bulk_vars, shared_vars, search_vars,
                 pool_vars>>

\* akeneo_update_description(result['sku'], result['description_html'],
\* channel, locale) for the result of this turn
CommitCall ==
  /\ c_pc = "loop"
  /\ c_i <= Len(successful)
  /\ u_sku' = successful[c_i].sku
  /\ u_channel' = BulkChannel
  /\ u_locale' = BulkLocale
  /\ u_pc' = "token"
  /\ u_exists' = NoExists
  /\ u_meta' = NoMetas
  /\ u_payload' = <<>>
  /\ u_seo' = "pending"
  /\ u_patch' = NoPatch
  /\ u_result' = ""
  /\ u_message' = <<>>
  /\ c_calls' = Append(c_calls, successful[c_i].sku)
  /\ c_pc' = "calling"
  /\ UNCHANGED <<present, c_i, success_count, error_count, error_msgs, c_presses,
                 fetch_vars, bulk_vars, shared_vars, search_vars, pool_vars>>

\* the turn whose call raised goes to the next result without counting it
CommitReturnUncounted ==
  /\ c_pc = "calling"
  /\ u_pc = "done"
  /\ IF u_result = "True"
     THEN /\ success_count' = success_count + 1
          /\ UNCHANGED <<error_count, error_msgs>>
     ELSE UNCHANGED <<success_count, error_count, error_msgs>>
  /\ c_i' = c_i + 1
  /\ c_pc' = "loop"
  /\ UNCHANGED <<c_calls, c_presses, fetch_vars, update_vars, bulk_vars, shared_vars,
                 search_vars, pool_vars>>

\* the call returned: success_count += 1; or raised: error_count += 1 and
\* error_msgs.append(f"{result['sku']}: {str(e)}")
CommitReturn ==
  /\ c_pc = "calling"
  /\ u_pc = "done"
  /\ IF u_result = "True"
     THEN /\ success_count' = success_count + 1
          /\ UNCHANGED <<error_count, error_msgs>>
     ELSE /\ error_count' = error_count + 1
          /\ error_msgs' = Append(error_msgs, <<ToString(u_sku)>> \o u_message)
          /\ UNCHANGED success_count
  /\ c_i' = c_i + 1
  /\ c_pc' = "loop"
  /\ UNCHANGED <<c_calls, c_presses, fetch_vars, update_vars, bulk_vars, shared_vars,
                 search_vars, pool_vars>>

\* the loop is left and the counts are shown
CommitEnd ==
  /\ c_pc = "loop"
  /\ c_i > Len(successful)
  /\ c_pc' = "done"
  /\ UNCHANGED <<c_i, success_count, error_count, error_msgs, c_calls, c_presses,
                 fetch_vars,
                 update_vars, bulk_vars, shared_vars, search_vars, pool_vars>>

CommitNext ==
  \/ CommitButton
  \/ CommitCall
  \/ UpdateToken
  \/ UpdateExists
  \/ UpdateAttrDesc
  \/ UpdateAttrSeo
  \/ UpdatePatch
  \/ RemoveProduct
  \/ CommitReturn
  \/ CommitEnd

SpecCommit == CommitInit /\ [][CommitNext]_vars

\* the button is shown again on every run of the script while a result
\* without error is stored (lines 1457-1480), whether or not it was pressed
\* before: a further press starts the same loop over the same results
CommitButtonAgain ==
  /\ c_pc = "done"
  /\ c_presses < MaxPresses
  /\ successful # <<>>
  /\ c_pc' = "loop"
  /\ c_i' = 1
  /\ success_count' = 0
  /\ error_count' = 0
  /\ error_msgs' = <<>>
  /\ c_calls' = <<>>
  /\ c_presses' = c_presses + 1
  /\ UNCHANGED <<fetch_vars, update_vars, bulk_vars, shared_vars, search_vars,
                 pool_vars>>

\* the operator takes a product out of the selection between two runs of
\* the script: del st.session_state.bulk_selected_products[sku]; the stored
\* results are not touched
RemoveFromBasket ==
  /\ c_pc \in {"idle", "done"}
  /\ \E sku \in bulk_selected_products :
       bulk_selected_products' = bulk_selected_products \ {sku}
  /\ UNCHANGED <<bulk_results, b_pc, token_resp, skus, task, done_order, snap,
                 results_temp, progress, b_requests, fetch_vars, update_vars,
                 shared_vars, search_vars, commit_vars, pool_vars>>

RecommitNext ==
  \/ CommitNext
  \/ CommitButtonAgain
  \/ RemoveFromBasket

\* the commit of the stored results with up to MaxPresses presses, the
\* operator changing the selection between them
SpecRecommit == CommitInit /\ [][RecommitNext]_vars

(***************************************************************************)
(* The bulk run (lines 1409-1444): the handler of the button, the worker   *)
(* pool and the tasks, one request at a time.                              *)
(***************************************************************************)
\* a product as the catalog answers it: a name, a description and an author
Product(author) ==
  [identifier |-> <<"x", "x">>,
   values |-> ("name" :> <<[data |-> Str(<<"x">>), scope |-> "null", locale |-> "pl_PL"]>>)
          @@ ("description" :> <<[data |-> Str(<<"x", "s", "x">>), scope |-> "Bookland",
                                 locale |-> "pl_PL"]>>)
          @@ ("author" :> <<[data |-> author, scope |-> "null", locale |-> "null"]>>)]

\* what the detail endpoint answers to a task
BulkResponses ==
  {Response("", 200, Product(Str(<<"s", "x">>))),
   Response("", 200, Product(List(<< <<"x">>, <<"y">> >>))),
   Response("", 404, NoProduct),
   Response("", 500, NoProduct),
   Response("Timeout", 0, NoProduct)}

\* what the provider does for a task
BulkOutcomes ==
  {[kind |-> "text", text |-> <<"F", "h", "s", "x", "m", "x", "s", "F">>],
   [kind |-> "text", text |-> <<"x", "s", "E", "s", "x">>],
   [kind |-> "text", text |-> <<>>],
   [kind |-> "text", text |-> <<"F", "h", "s", "F">>],
   [kind |-> "none", text |-> <<>>],
   [kind |-> "exception", text |-> <<>>],
   [kind |-> "timeout", text |-> <<>>]}

\* the stage of the task that failed on these inputs, "" when none did
FailedStage(resp, out_kind) ==
  IF resp.fault # "" THEN "fetch"
  ELSE IF resp.status = 404 THEN "notfound"
  ELSE IF resp.status # 200 THEN "fetch"
  ELSE IF resp.product.values["author"][1].data.type = "list" THEN "prepare"
  ELSE IF out_kind # "text" THEN "generate"
  ELSE ""

BulkInit ==
  /\ FetchIdle
  /\ UpdateIdle
  /\ RestIdle
  /\ tokens_issued = 0
  /\ written = {}
  /\ bulk_selected_products \in (SUBSET Skus) \ {{}}
  /\ bulk_results = <<>>
  /\ b_pc = "start"
  /\ token_resp = NoTokenAnswer
  /\ skus = <<>>
  /\ task = [k \in Skus |-> NoTask]
  /\ done_order = <<>>
  /\ snap = 0
  /\ results_temp = <<>>
  /\ progress = 0
  /\ b_requests = {}

\* the order in which a dict holds the keys S: the order of insertion; the
\* keys are numbered in the order in which they were put into the basket
Orderings(S) ==
  {q \in [1..Cardinality(S) -> S] : \A i, j \in 1..Cardinality(S) : i < j => q[i] < q[j]}

\* the validation of st.secrets at the start of the script: st.stop() when
\* a credential is missing, else the page is shown
Validation ==
  /\ b_pc = "start"
  /\ \E missing \in BOOLEAN : b_pc' = IF missing THEN "stopped" ELSE "idle"
  /\ UNCHANGED <<bulk_selected_products, bulk_results, token_resp, skus, task,
                 done_order, snap, results_temp, progress, b_requests,
                 fetch_vars, update_vars, shared_vars, rest_vars>>

\* the button: st.session_state.bulk_results = [] and the progress bar at 0
StartBulk ==
  /\ b_pc = "idle"
  /\ bulk_selected_products # {}
  /\ bulk_results' = <<>>
  /\ progress' = 0
  /\ b_pc' = "token"
  /\ UNCHANGED <<bulk_selected_products, token_resp, skus, task, done_order, snap,
                 results_temp, b_requests, fetch_vars, update_vars, shared_vars,
                 rest_vars>>

\* a request of the run: its kind and the key it is sent for (0: none)
Request(kind, sku) == [kind |-> kind, sku |-> sku]

\* the token step that goes on to the tasks whatever the answer
BulkTokenUnchecked ==
  /\ b_pc = "token"
  /\ \E resp \in TokenAnswers :
       /\ token_resp' = resp
       /\ tokens_issued' = TokensAfter(resp)
  /\ b_requests' = b_requests \cup {Request("POST token", 0)}
  /\ skus' \in Orderings(bulk_selected_products)
  /\ b_pc' = "submit"
  /\ UNCHANGED <<bulk_selected_products, bulk_results, task, done_order, snap,
                 results_temp, progress, written, fetch_vars, update_vars,
                 rest_vars>>

\* token = akeneo_get_token(); skus = list(bulk_selected_products.keys())
BulkToken ==
  /\ b_pc = "token"
  /\ \E resp \in TokenAnswers :
       /\ token_resp' = resp
       /\ tokens_issued' = TokensAfter(resp)
       /\ IF akeneo_get_token(resp).kind = "return"
          THEN /\ skus' \in Orderings(bulk_selected_products)
               /\ b_pc' = "submit"
          ELSE /\ skus' = skus
               /\ b_pc' = "failed"
  /\ b_requests' = b_requests \cup {Request("POST token", 0)}
  /\ UNCHANGED <<bulk_selected_products, bulk_results, task, done_order, snap,
                 results_temp, progress, written, fetch_vars, update_vars,
                 rest_vars>>

Submitted == {k \in Skus : task[k].pc # "none"}

Running == {k \in Skus : task[k].pc \in {"fetch", "generate"}}

\* executor.submit(process_product_from_akeneo, sku, ...) for the next key;
\* after the last one results_temp = [] and as_completed(futures) is called
SubmitTask ==
  /\ b_pc = "submit"
  /\ LET n == Cardinality(Submitted) + 1
     IN /\ task' = [task EXCEPT ![skus[n]].pc = "queued"]
        /\ IF n = Len(skus)
           THEN b_pc' = "as_completed" /\ results_temp' = <<>>
           ELSE b_pc' = b_pc /\ results_temp' = results_temp
  /\ UNCHANGED <<bulk_selected_products, bulk_results, token_resp, skus, done_order,
                 snap, progress, b_requests, fetch_vars, update_vars, shared_vars,
                 rest_vars>>

\* a free worker takes the oldest queued task
StartTask(k) ==
  /\ task[k].pc = "queued"
  /\ Cardinality(Running) < max_workers
  /\ \A i, j \in 1..Len(skus) :
       (skus[j] = k /\ i < j) => task[skus[i]].pc # "queued"
  /\ task' = [task EXCEPT ![k].pc = "fetch"]
  /\ UNCHANGED <<bulk_selected_products, bulk_results, b_pc, token_resp, skus,
                 done_order, snap, results_temp, progress, b_requests, fetch_vars,
                 update_vars, shared_vars, rest_vars>>

\* the task up to the call of generate_description: the detail request,
\* the not-found test, details_parts and product_data
TaskFetch(k) ==
  /\ task[k].pc = "fetch"
  /\ \E resp \in BulkResponses :
       IF EndsBeforeGenerate(resp, BulkChannel, BulkLocale)
       THEN LET r == process_product_from_akeneo(k, resp, BulkChannel, BulkLocale,
                                                 ModelChoice, NoOutcome)
            IN /\ task' = [task EXCEPT ![k] =
                    [pc |-> "finished", stage |-> FailedStage(resp, ""),
                     generated |-> FALSE, raised |-> r.raised, resp |-> resp,
                     result |-> r.result]]
               /\ done_order' = Append(done_order, k)
       ELSE /\ task' = [task EXCEPT ![k].pc = "generate", ![k].resp = resp]
            /\ done_order' = done_order
  /\ b_requests' = b_requests \cup {Request("GET product", k)}
  /\ UNCHANGED <<bulk_selected_products, bulk_results, b_pc, token_resp, skus,
                 snap, results_temp, progress, fetch_vars, update_vars,
                 shared_vars, rest_vars>>

\* the task that writes its description to the catalog when it has one
TaskGenerateAndWrite(k) ==
  /\ task[k].pc = "generate"
  /\ \E out \in BulkOutcomes :
       LET r == process_product_from_akeneo(k, task[k].resp, BulkChannel, BulkLocale,
                                            ModelChoice, out)
       IN /\ task' = [task EXCEPT ![k] =
               [pc |-> "finished", stage |-> FailedStage(task[k].resp, out.kind),
                generated |-> TRUE, raised |-> r.raised, resp |-> task[k].resp,
                result |-> r.result]]
          /\ b_requests' = b_requests \cup {Request("provider", k)}
               \cup (IF Truthy(r.result.error) THEN {}
                     ELSE {Request("PATCH product", k)})
  /\ done_order' = Append(done_order, k)
  /\ UNCHANGED <<bulk_selected_products, bulk_results, b_pc, token_resp, skus,
                 snap, results_temp, progress, fetch_vars, update_vars,
                 shared_vars, rest_vars>>

\* generate_description with the provider call in it, and the rest of the task
TaskGenerate(k) ==
  /\ task[k].pc = "generate"
  /\ \E out \in BulkOutcomes :
       LET r == process_product_from_akeneo(k, task[k].resp, BulkChannel, BulkLocale,
                                            ModelChoice, out)
       IN task' = [task EXCEPT ![k] =
            [pc |-> "finished", stage |-> FailedStage(task[k].resp, out.kind),
             generated |-> TRUE, raised |-> r.raised, resp |-> task[k].resp,
             result |-> r.result]]
  /\ b_requests' = b_requests \cup {Request("provider", k)}
  /\ done_order' = Append(done_order, k)
  /\ UNCHANGED <<bulk_selected_products, bulk_results, b_pc, token_resp, skus,
                 snap, results_temp, progress, fetch_vars, update_vars,
                 shared_vars, rest_vars>>

\* as_completed(futures) begins: the futures that are done by now are set
\* apart, the others will be handed over as they become done
AsCompleted ==
  /\ b_pc = "as_completed"
  /\ snap' = Len(done_order)
  /\ b_pc' = "collect"
  /\ UNCHANGED <<bulk_selected_products, bulk_results, token_resp, skus, task,
                 done_order, results_temp, progress, b_requests, fetch_vars,
                 update_vars, shared_vars, rest_vars>>

\* the futures that were done when as_completed began
Early == {done_order[i] : i \in 1..snap}

\* as_completed yields the future of k next: one of the early ones, in no
\* particular order (they are kept in a set), and after them the others in
\* the order in which they became done
YieldsNext(k) ==
  IF \E e \in Early : task[e].pc = "finished"
  THEN k \in Early
  ELSE \E i \in (snap + 1)..Len(done_order) :
         /\ done_order[i] = k
         /\ \A j \in (snap + 1)..(i - 1) : task[done_order[j]].pc = "collected"

\* the loop body that takes any future that is done
CollectAnyDone(k) ==
  /\ b_pc = "collect"
  /\ task[k].pc = "finished"
  /\ IF task[k].raised
     THEN /\ b_pc' = "failed"
          /\ UNCHANGED <<results_temp, progress>>
     ELSE /\ results_temp' = Append(results_temp, task[k].result)
          /\ progress' = Len(results_temp) + 1
          /\ b_pc' = b_pc
  /\ task' = [task EXCEPT ![k].pc = "collected"]
  /\ UNCHANGED <<bulk_selected_products, bulk_results, token_resp, skus,
                 done_order, snap, b_requests, fetch_vars, update_vars,
                 shared_vars, rest_vars>>

\* the loop body that reports i instead of i + 1
CollectReportsIndex(k) ==
  /\ b_pc = "collect"
  /\ task[k].pc = "finished"
  /\ YieldsNext(k)
  /\ IF task[k].raised
     THEN /\ b_pc' = "failed"
          /\ UNCHANGED <<results_temp, progress>>
     ELSE /\ results_temp' = Append(results_temp, task[k].result)
          /\ progress' = Len(results_temp)
          /\ b_pc' = b_pc
  /\ task' = [task EXCEPT ![k].pc = "collected"]
  /\ UNCHANGED <<bulk_selected_products, bulk_results, token_resp, skus,
                 done_order, snap, b_requests, fetch_vars, update_vars,
                 shared_vars, rest_vars>>

\* one turn of  for i, future in enumerate(as_completed(futures)):
\* future.result() returns the result or raises what the task raised
Collect(k) ==
  /\ b_pc = "collect"
  /\ task[k].pc = "finished"
  /\ YieldsNext(k)
  /\ IF task[k].raised
     THEN /\ b_pc' = "failed"
          /\ UNCHANGED <<results_temp, progress>>
     ELSE /\ results_temp' = Append(results_temp, task[k].result)
          /\ progress' = Len(results_temp) + 1
          /\ b_pc' = b_pc
  /\ task' = [task EXCEPT ![k].pc = "collected"]
  /\ UNCHANGED <<bulk_selected_products, bulk_results, token_resp, skus,
                 done_order, snap, b_requests, fetch_vars, update_vars,
                 shared_vars, rest_vars>>

\* the loop and the with block are left: bulk_results = results_temp
StoreResults ==
  /\ b_pc = "collect"
  /\ \A k \in Submitted : task[k].pc = "collected"
  /\ bulk_results' = results_temp
  /\ b_pc' = "done"
  /\ UNCHANGED <<bulk_selected_products, token_resp, skus, task, done_order, snap,
                 results_temp, progress, b_requests, fetch_vars, update_vars,
                 shared_vars, rest_vars>>

Next ==
  \/ Validation
  \/ StartBulk
  \/ BulkToken
  \/ SubmitTask
  \/ \E k \in Skus : StartTask(k)
  \/ \E k \in Skus : TaskFetch(k)
  \/ \E k \in Skus : TaskGenerate(k)
  \/ AsCompleted
  \/ \E k \in Skus : Collect(k)
  \/ StoreResults

Spec == BulkInit /\ [][Next]_vars

\* what the detail endpoint does to a task: the product, or no answer
\* within timeout=30
LiveResponses ==
  {Response("", 200, Product(Str(<<"s", "x">>))),
   Response("Timeout", 0, NoProduct)}

\* what the provider does for a task: a text, or no answer within the
\* timeout of its client
LiveOutcomes ==
  {[kind |-> "text", text |-> <<"x", "m", "x">>],
   [kind |-> "timeout", text |-> <<>>]}

\* the whole task in one step: process_product_from_akeneo(sku, ...) with
\* its detail request and its provider call
TaskRun(k) ==
  /\ task[k].pc = "fetch"
  /\ \E resp \in LiveResponses, out \in LiveOutcomes :
       LET gen == ~EndsBeforeGenerate(resp, BulkChannel, BulkLocale)
           r == process_product_from_akeneo(k, resp, BulkChannel, BulkLocale,
                  ModelChoice, IF gen THEN out ELSE NoOutcome)
       IN /\ task' = [task EXCEPT ![k] =
               [pc |-> "finished",
                stage |-> FailedStage(resp, IF gen THEN out.kind ELSE ""),
                generated |-> gen, raised |-> r.raised, resp |-> resp,
                result |-> r.result]]
          /\ b_requests' = b_requests \cup {Request("GET product", k)}
               \cup (IF gen THEN {Request("provider", k)} ELSE {})
  /\ done_order' = Append(done_order, k)
  /\ UNCHANGED <<bulk_selected_products, bulk_results, b_pc, token_resp, skus,
                 snap, results_temp, progress, fetch_vars, update_vars,
                 shared_vars, rest_vars>>

LiveNext ==
  \/ Validation
  \/ StartBulk
  \/ BulkToken
  \/ SubmitTask
  \/ \E k \in Skus : StartTask(k)
  \/ \E k \in Skus : TaskRun(k)
  \/ AsCompleted
  \/ \E k \in Skus : Collect(k)
  \/ StoreResults

\* The scheduling of a bulk run.  The handler thread goes on from one
\* statement to the next (SubmitTask, AsCompleted, Collect, StoreResults);
\* a free worker of the pool takes a queued task (StartTask); every request
\* of a task ends, with an answer or with the exception of its timeout
\* (timeout=30 of the catalog requests, the timeout of the provider's
\* client), so that a started task comes to its end (TaskRun).  Pressing
\* the button is left to the operator.
Fairness ==
  /\ WF_vars(SubmitTask)
  /\ WF_vars(AsCompleted)
  /\ WF_vars(StoreResults)
  /\ WF_vars(\E k \in Skus : StartTask(k))
  /\ WF_vars(\E k \in Skus : TaskRun(k))
  /\ WF_vars(\E k \in Skus : Collect(k))

SpecLive == BulkInit /\ [][LiveNext]_vars /\ Fairness

(***************************************************************************)
(* The button "Przeredaguj ten" of one result of a finished bulk run       *)
(* (lines 1512-1544).                                                      *)
(***************************************************************************)
RegenInit ==
  /\ FetchIdle
  /\ UpdateIdle
  /\ RestIdle
  /\ tokens_issued = 0
  /\ written = {}
  /\ \E n \in 1..MaxKeys : \E q \in StoredResults(n) :
       bulk_results = [i \in 1..n |-> ResultOf(i, q[i])]
  /\ bulk_selected_products = {bulk_results[i].sku : i \in 1..Len(bulk_results)}
  /\ b_pc = "done"
  /\ token_resp = NoTokenAnswer
  /\ skus = <<>>
  /\ task = [k \in Skus |-> NoTask]
  /\ done_order = <<>>
  /\ snap = 0
  /\ results_temp = <<>>
  /\ progress = 0
  /\ b_requests = {}

\* what the detail endpoint answers to the task of the button
RegenResponses ==
  {Response("", 200, Product(Str(<<"s", "x">>))),
   Response("", 404, NoProduct),
   Response("Timeout", 0, NoProduct)}

\* what the provider does for the task of the button
RegenOutcomes ==
  {[kind |-> "text", text |-> <<"x", "m", "x">>],
   [kind |-> "text", text |-> <<"x", "s", "E">>],
   [kind |-> "exception", text |-> <<>>]}

\* the handler that stores the new result whatever its error
RegenerateItemAlways ==
  /\ b_pc = "done"
  /\ tokens_issued < MaxCalls
  /\ \E idx \in 1..Len(bulk_results), answer \in TokenAnswers :
       /\ ~Truthy(bulk_results[idx].error)
       /\ token_resp' = answer
       /\ tokens_issued' = TokensAfter(answer)
       /\ IF akeneo_get_token(answer).kind = "return"
          THEN \E resp \in RegenResponses, out \in RegenOutcomes :
               LET new_result ==
                     process_product_from_akeneo(bulk_results[idx].sku, resp,
                       BulkChannel, BulkLocale, ModelChoice, out).result
               IN /\ f_resp' = resp
                  /\ f_out' = out
                  /\ f_result' = new_result
                  /\ bulk_results' =
                       [bulk_results EXCEPT ![idx] = new_result]
          ELSE UNCHANGED <<f_resp, f_out, f_result, bulk_results>>
  /\ UNCHANGED <<f_channel, f_locale, f_pc, f_details, f_input, f_model, f_html,
                 bulk_selected_products, b_pc, skus, task, done_order, snap,
                 results_temp, progress, b_requests, written, update_vars,
                 rest_vars>>

\* the handler of the button of the result at idx, shown for the results
\* without error: token = akeneo_get_token(); new_result =
\* process_product_from_akeneo(result['sku'], ...); if not
\* new_result['error']: st.session_state.bulk_results[idx] = new_result
RegenerateItem ==
  /\ b_pc = "done"
  /\ tokens_issued < MaxCalls
  /\ \E idx \in 1..Len(bulk_results), answer \in TokenAnswers :
       /\ ~Truthy(bulk_results[idx].error)
       /\ token_resp' = answer
       /\ tokens_issued' = TokensAfter(answer)
       /\ IF akeneo_get_token(answer).kind = "return"
          THEN \E resp \in RegenResponses, out \in RegenOutcomes :
               LET new_result ==
                     process_product_from_akeneo(bulk_results[idx].sku, resp,
                       BulkChannel, BulkLocale, ModelChoice, out).result
               IN /\ f_resp' = resp
                  /\ f_out' = out
                  /\ f_result' = new_result
                  /\ bulk_results' =
                       IF ~Truthy(new_result.error)
                       THEN [bulk_results EXCEPT ![idx] = new_result]
                       ELSE bulk_results
          ELSE UNCHANGED <<f_resp, f_out, f_result, bulk_results>>
  /\ UNCHANGED <<f_channel, f_locale, f_pc, f_details, f_input, f_model, f_html,
                 bulk_selected_products, b_pc, skus, task, done_order, snap,
                 results_temp, progress, b_requests, written, update_vars,
                 rest_vars>>

RegenNext == RegenerateItem

SpecRegen == RegenInit /\ [][RegenNext]_vars

\* the results an earlier run over the selection has stored
PreviousResults ==
  LET q == CHOOSE o \in Orderings(bulk_selected_products) : TRUE
  IN [i \in 1..Len(q) |-> ResultOf(q[i], "success")]

\* the script is run again with the results of an earlier run in
\* st.session_state.bulk_results
RerunInit ==
  /\ FetchIdle
  /\ UpdateIdle
  /\ RestIdle
  /\ tokens_issued = 0
  /\ written = {}
  /\ bulk_selected_products \in (SUBSET Skus) \ {{}}
  /\ bulk_results = PreviousResults
  /\ b_pc = "start"
  /\ token_resp = NoTokenAnswer
  /\ skus = <<>>
  /\ task = [k \in Skus |-> NoTask]
  /\ done_order = <<>>
  /\ snap = 0
  /\ results_temp = <<>>
  /\ progress = 0
  /\ b_requests = {}

\* a bulk run started while the results of an earlier run are stored
SpecRerun == RerunInit /\ [][Next]_vars

(***************************************************************************)
(* The worker pool of the bulk run (lines 1416-1438) with more keys than   *)
(* workers; what a task does is left out, only where it stands is kept.    *)
(***************************************************************************)
PoolInit ==
  /\ FetchIdle
  /\ UpdateIdle
  /\ BulkIdle
  /\ SharedIdle
  /\ SearchIdle
  /\ CommitIdle
  /\ p_pc = "submit"
  /\ \E n \in 1..PoolKeys : p_skus = [i \in 1..n |-> i]
  /\ p_futures = <<>>
  /\ p_task = [k \in PoolSkus |-> "none"]

\* the tasks a worker thread is running
PoolRunning == {k \in PoolSkus : p_task[k] = "running"}

\* executor.submit(process_product_from_akeneo, sku, ...) for sku in skus
PoolSubmit ==
  /\ p_pc = "submit"
  /\ LET n == Len(p_futures) + 1
     IN /\ p_futures' = Append(p_futures, p_skus[n])
        /\ p_task' = [p_task EXCEPT ![p_skus[n]] = "queued"]
        /\ p_pc' = IF n = Len(p_skus) THEN "collect" ELSE p_pc
  /\ UNCHANGED <<p_skus, fetch_vars, update_vars, bulk_vars, shared_vars,
                 search_vars, commit_vars>>

\* a pool that starts a thread for every task
PoolStartUnbounded(k) ==
  /\ p_task[k] = "queued"
  /\ \A i, j \in 1..Len(p_futures) :
       (p_futures[j] = k /\ i < j) => p_task[p_futures[i]] # "queued"
  /\ p_task' = [p_task EXCEPT ![k] = "running"]
  /\ UNCHANGED <<p_pc, p_skus, p_futures, fetch_vars, update_vars, bulk_vars,
                 shared_vars, search_vars, commit_vars>>

\* a worker of ThreadPoolExecutor(max_workers=5) takes the oldest queued
\* task: there are at most max_workers worker threads
PoolStart(k) ==
  /\ p_task[k] = "queued"
  /\ Cardinality(PoolRunning) < max_workers
  /\ \A i, j \in 1..Len(p_futures) :
       (p_futures[j] = k /\ i < j) => p_task[p_futures[i]] # "queued"
  /\ p_task' = [p_task EXCEPT ![k] = "running"]
  /\ UNCHANGED <<p_pc, p_skus, p_futures, fetch_vars, update_vars, bulk_vars,
                 shared_vars, search_vars, commit_vars>>

\* process_product_from_akeneo returns: the future is done
PoolFinish(k) ==
  /\ p_task[k] = "running"
  /\ p_task' = [p_task EXCEPT ![k] = "done"]
  /\ UNCHANGED <<p_pc, p_skus, p_futures, fetch_vars, update_vars, bulk_vars,
                 shared_vars, search_vars, commit_vars>>

\* one turn of the as_completed loop
PoolCollect(k) ==
  /\ p_pc = "collect"
  /\ p_task[k] = "done"
  /\ p_task' = [p_task EXCEPT ![k] = "collected"]
  /\ UNCHANGED <<p_pc, p_skus, p_futures, fetch_vars, update_vars, bulk_vars,
                 shared_vars, search_vars, commit_vars>>

\* the with block of the executor is left
PoolLeave ==
  /\ p_pc = "collect"
  /\ \A i \in 1..Len(p_skus) : p_task[p_skus[i]] = "collected"
  /\ p_pc' = "left"
  /\ UNCHANGED <<p_skus, p_futures, p_task, fetch_vars, update_vars, bulk_vars,
                 shared_vars, search_vars, commit_vars>>

PoolNext ==
  \/ PoolSubmit
  \/ \E k \in PoolSkus : PoolStart(k)
  \/ \E k \in PoolSkus : PoolFinish(k)
  \/ \E k \in PoolSkus : PoolCollect(k)
  \/ PoolLeave

SpecPool == PoolInit /\ [][PoolNext]_vars

(***************************************************************************)
(* Properties of the bulk run (Spec).                                      *)
(***************************************************************************)
\* the tasks that ended
Ended == {k \in Skus : task[k].pc \in {"finished", "collected"}}

\* C1 as claimed: the run over N keys of which K triggered a failure ends
\* with N stored results, exactly K of them with an error.
C1_ErrorsEqualFailures ==
  b_pc = "done" =>
    /\ Len(bulk_results) = Cardinality(bulk_selected_products)
    /\ Cardinality({i \in 1..Len(bulk_results) : bulk_results[i].error.type # "none"})
         = Cardinality({k \in bulk_selected_products : task[k].stage # ""})

\* C2: a task never raises; it returns a result for its key, with error set
\* whenever the fetch, the preparation or the generation failed; a key the
\* catalog does not hold gets the not-found error and no generation call.
C2_TaskAlwaysReturnsResult ==
  \A k \in Ended :
    /\ ~task[k].raised
    /\ task[k].result.sku = k
    /\ task[k].stage # "" =>
         (task[k].result.error.type = "str" /\ Truthy(task[k].result.error))
    /\ task[k].stage = "notfound" =>
         (task[k].result.error = Str(NotFoundText) /\ ~task[k].generated)

C2_Witness ==
  /\ b_pc = "done"
  /\ \E k1, k2 \in Ended :
       /\ task[k1].stage = "notfound"
       /\ task[k1].result.error = Str(NotFoundText)
       /\ task[k2].stage = "generate"
       /\ task[k2].generated
       /\ Truthy(task[k2].result.error)

\* C3 as claimed: every result has exactly one of markup and error: markup
\* and no error, or an error and no markup.
C3_ExactlyOneOfHtmlError ==
  \A i \in 1..Len(results_temp) :
    LET r == results_temp[i]
    IN /\ r.error.type = "none" => Truthy(r.description_html)
       /\ r.error.type # "none" => ~Truthy(r.description_html)

(***************************************************************************)
(* Properties of the detail fetch (SpecFetch).                             *)
(***************************************************************************)
C7_Matches(val, channel, locale) ==
  /\ val.scope \in {"null", channel}
  /\ val.locale \in {"null", locale}

C7_Data(val) == IF val.data.type = "absent" THEN EmptyStr ELSE val.data

C7_Expected(values, attr_name, channel, locale) ==
  IF attr_name \notin DOMAIN values THEN EmptyStr
  ELSE LET av == values[attr_name]
           M == {i \in 1..Len(av) : C7_Matches(av[i], channel, locale)}
       IN IF av = <<>> THEN EmptyStr
          ELSE IF M = {} THEN C7_Data(av[1])
          ELSE C7_Data(av[CHOOSE i \in M : \A j \in M : i <= j])

\* C7: the value resolved for a field is the data of the first entry, in
\* list order, whose scope is null or the channel and whose locale is null
\* or the locale; the first entry's data when no entry matches; the empty
\* string when the field is absent or has no entry.
C7_GetReturnsFirstMatch ==
  (f_pc # "fetch" /\ f_details.kind = "record") =>
    /\ f_details.data.description =
         C7_Expected(f_resp.product.values, "description", f_channel, f_locale)
    /\ f_details.data.short_description =
         C7_Expected(f_resp.product.values, "short_description", f_channel, f_locale)

\* C7 witnesses: a later entry matches and the first does not; no entry matches
C7_Witness ==
  /\ f_pc = "fetched"
  /\ f_details.kind = "record"
  /\ "description" \in DOMAIN f_resp.product.values
  /\ LET av == f_resp.product.values["description"]
     IN /\ Len(av) = 2
        /\ ~C7_Matches(av[1], f_channel, f_locale)
        /\ C7_Matches(av[2], f_channel, f_locale)
        /\ av[1].data # av[2].data
        /\ f_details.data.description = av[2].data

\* C8 as claimed: no field is a list when it reaches the generation step.
C8_NoListReachesGeneration ==
  f_pc = "generate" =>
    /\ ~IsList(f_input.title)
    /\ ~IsList(f_input.author)
    /\ ~IsList(f_input.description)
    /\ \A i \in 1..Len(f_input.details) : ~IsList(f_input.details[i].value)

\* C10: the fetch answers None exactly on status 404, raises on a network
\* fault and on every other error status, and answers the record built from
\* the response on status 200.
C10_NoneIffStatus404 ==
  f_pc # "fetch" =>
    /\ (f_details.kind = "none") <=> (f_resp.fault = "" /\ f_resp.status = 404)
    /\ (f_resp.fault # "" \/ f_resp.status \in {401, 500}) => f_details.kind = "raise"
    /\ (f_resp.fault = "" /\ f_resp.status = 200) =>
         /\ f_details.kind = "record"
         /\ f_details.data.identifier = Str(f_resp.product.identifier)

C10_Witness ==
  /\ f_pc = "fetched"
  /\ f_resp.fault = ""
  /\ f_resp.status = 500
  /\ f_details.kind = "raise"

(***************************************************************************)
(* Properties of akeneo_update_description (SpecUpdate).                   *)
(***************************************************************************)
\* C4: when the existence check returns false the call ends at once with
\* the not-found error (ValueError) and has sent no PATCH.
C4_NoWriteWhenMissing ==
  (u_exists.kind = "return" /\ ~u_exists.value) =>
    /\ u_pc = "done"
    /\ u_result = "ValueError"
    /\ ~u_patch.sent

C4_Witness ==
  /\ u_exists.kind = "return"
  /\ u_exists.status = 404
  /\ ~u_exists.value
  /\ u_pc = "done"
  /\ u_result = "ValueError"

\* C5 as claimed: every PATCH sent by the update is applied to a key the
\* catalog holds at that moment, so the update never creates a record.
C5_UpdateNeverCreates ==
  ~(u_patch.sent /\ ~u_patch.present /\ u_patch.status = 201)

\* C6: every value in the payload has scope null when the attribute is not
\* scopable and the caller's channel when it is, and locale null when the
\* attribute is not localizable and the caller's locale when it is.
C6_ScopeLocaleFollowMetadata ==
  \A a \in DOMAIN u_payload :
    /\ ~u_meta[a].scopable => u_payload[a].scope = "null"
    /\ u_meta[a].scopable => u_payload[a].scope = u_channel
    /\ ~u_meta[a].localizable => u_payload[a].locale = "null"
    /\ u_meta[a].localizable => u_payload[a].locale = u_locale

C6_Witness ==
  /\ u_patch.sent
  /\ DOMAIN u_payload = {"description", "opisy_seo"}
  /\ u_meta["description"].scopable
  /\ ~u_meta["description"].localizable
  /\ ~u_meta["opisy_seo"].scopable
  /\ u_meta["opisy_seo"].localizable
  /\ u_payload["description"].scope = u_channel
  /\ u_payload["opisy_seo"].scope = "null"

\* C9 as claimed: the existence check returns true on 200, false on 404,
\* and raises on every other status.
C9_ExistsRaisesOnOtherStatus ==
  /\ u_exists.status = 200 => (u_exists.kind = "return" /\ u_exists.value)
  /\ u_exists.status = 404 => (u_exists.kind = "return" /\ ~u_exists.value)
  /\ u_exists.status \in {401, 500} => u_exists.kind = "raise"

(***************************************************************************)
(* Properties of the search (SpecSearch).                                  *)
(***************************************************************************)
\* the identifiers an answer lists
AnswerKeys(r) == {r.items[i].identifier : i \in 1..Len(r.items)}

\* the list holds every identifier at most once
KeysDistinct(l) ==
  \A i, j \in 1..Len(l) : l[i].identifier = l[j].identifier => i = j

\* every element of the list is the summary of an item of one of the answers
FromQueries(l) ==
  \A i \in 1..Len(l) :
    \E r \in {s_r1, s_r2} : \E j \in 1..Len(r.items) :
      l[i] = Summary(r.items[j], SearchLocale)

\* C11 as claimed: the list returned by the search holds each identifier
\* at most once, is sorted by identifier, is no longer than limit and holds
\* only items of the two queries.
C11_SortedByIdentifier ==
  s_pc = "returned" =>
    /\ KeysDistinct(s_results)
    /\ \A i \in 1..(Len(s_results) - 1) :
         ~StrLess(s_results[i + 1].identifier, s_results[i].identifier)
    /\ Len(s_results) <= s_limit
    /\ FromQueries(s_results)

\* C11 amended: the list returned by the search holds each identifier at
\* most once, is sorted by the lower-cased title, is no longer than limit
\* and holds only items of the two queries.
C11_SortedByTitle ==
  s_pc = "returned" =>
    /\ KeysDistinct(s_results)
    /\ \A i \in 1..(Len(s_results) - 1) :
         ~StrLess(SortKey(s_results[i + 1]), SortKey(s_results[i]))
    /\ Len(s_results) <= s_limit
    /\ FromQueries(s_results)

\* a search that found one identifier by both queries and more identifiers
\* than limit, and returned limit of them
C11_Witness ==
  /\ s_pc = "returned"
  /\ AnswerKeys(s_r1) \cap AnswerKeys(s_r2) # {}
  /\ Cardinality(AnswerKeys(s_r1) \cup AnswerKeys(s_r2)) > s_limit
  /\ Len(s_results) = s_limit
  /\ s_limit >= 2

(***************************************************************************)
(* Properties of the write path (SpecUpdate), continued.                   *)
(***************************************************************************)
\* C12: when the metadata of opisy_seo cannot be fetched, the call goes on:
\* the PATCH is sent with the description and without opisy_seo, and the
\* call succeeds exactly when the PATCH is answered 200 or 204.
C12_SeoFailureNotFatal ==
  u_seo = "failed" =>
    /\ u_pc \in {"patch", "done"}
    /\ DOMAIN u_payload = {"description"}
    /\ u_payload["description"].data = HtmlToWrite
    /\ u_pc = "done" =>
         /\ u_patch.sent
         /\ u_result = "True" <=> u_patch.status \in {200, 204}
         /\ u_result \in {"True", "RuntimeError", "Timeout"}

\* a call whose opisy_seo metadata request failed and whose PATCH was applied
C12_Witness ==
  /\ u_seo = "failed"
  /\ u_pc = "done"
  /\ u_patch.sent
  /\ u_patch.status = 204
  /\ u_result = "True"

\* C13 as claimed: the call succeeds exactly when the PATCH is answered 200
\* or 204, and for any other status the exception carries the response body.
C13_ErrorCarriesBody ==
  (u_pc = "done" /\ u_patch.sent /\ u_patch.status # 0) =>
    /\ u_result = "True" <=> u_patch.status \in {200, 204}
    /\ (u_result # "True" /\ u_patch.body # "") =>
         \E i \in 1..Len(u_message) : u_message[i] = u_patch.body

(***************************************************************************)
(* Properties of the task with its generation (SpecGenerate).              *)
(***************************************************************************)
\* the source description of the fetched product, as the task reads it:
\* product_details.get('description', '') or
\* product_details.get('short_description', '')
SourceDescription == PyOr(f_details.data.description, f_details.data.short_description)

\* the number of characters c in text t
Count(t, c) == Cardinality({i \in 1..Len(t) : t[i] = c})

\* C23 as claimed: the result of a found product carries the quality
\* verdict of its source description, ERROR for the empty description and
\* OK for one of 300 characters or more.
C23_VerdictFollowsSourceLength ==
  (f_pc = "returned" /\ f_details.kind = "record") =>
    /\ "quality" \in DOMAIN f_result
    /\ SourceDescription.items[1] = <<>> => f_result.quality = "ERROR"
    /\ Len(SourceDescription.items[1]) >= 300 => f_result.quality = "OK"

C26_DashesNormalised ==
  (f_pc \in {"generated", "returned"} /\ f_out.kind = "text") =>
    LET base == strip_code_fences(Str(f_out.text)).items[1]
        text == f_html.items[1]
    IN /\ ~Contains(text, "m")
       /\ ~Contains(text, "n")
       /\ Count(text, "-") = Count(base, "-") + Count(base, "m") + Count(base, "n")
       /\ clean_ai_fingerprints(f_html) = f_html

\* the chat branch returned a text in which an em dash and an en dash of
\* the provider's text have become hyphens
C26_Witness ==
  /\ f_pc = "generated"
  /\ f_model = "gpt-4o"
  /\ f_out.kind = "text"
  /\ Contains(f_out.text, "m")
  /\ Contains(f_out.text, "n")
  /\ Count(f_html.items[1], "-") = 2

\* C28 as claimed: when the product was found and the provider returned a
\* text without raising, the task returns error = None and the generated
\* text as description_html, whatever the text contains.
C28_ErrorOnlyWhenStageFailed ==
  (f_pc = "returned" /\ f_details.kind = "record" /\ f_html # None
     /\ f_out.kind = "text") =>
    /\ f_result.error = None
    /\ f_result.description_html = f_html

(***************************************************************************)
(* Properties of the commit (SpecCommit).                                  *)
(***************************************************************************)
\* C14 as claimed: once the token endpoint has issued a token, the calls
\* that follow use it and request no other, so that no second token is
\* issued while the results of a run are committed.
C14_TokenRequestedOnce == tokens_issued <= 1

\* the calls of the loop that have ended
Returned == IF c_pc = "calling" THEN c_i - 1 ELSE Len(c_calls)

\* the key of the i-th call is named by a message of error_msgs
Reported(i) ==
  \E j \in 1..Len(error_msgs) : error_msgs[j][1] = ToString(c_calls[i])

\* C20: in the commit loop a failed call is counted and reported for its
\* item and the loop goes on: the calls are made for the accepted items in
\* their order, none twice; each ended call is either a success or one
\* reported error; the description of an item committed earlier stays
\* written (unless another user removed the product); after the loop every
\* accepted item was attempted and successes + errors = accepted items.
C20_CommitIsolatesFailures ==
  c_pc \in {"loop", "calling", "done"} =>
    /\ Len(c_calls) <= Len(successful)
    /\ \A i \in 1..Len(c_calls) : c_calls[i] = successful[i].sku
    /\ success_count + error_count = Returned
    /\ Len(error_msgs) = error_count
    /\ Cardinality({i \in 1..Returned : Reported(i)}) = error_count
    /\ \A i \in 1..Returned :
         ~Reported(i) => (c_calls[i] \in written \/ c_calls[i] \notin present)
    /\ c_pc = "done" =>
         /\ Len(c_calls) = Len(successful)
         /\ success_count + error_count = Len(successful)

\* a commit of two or more items whose first call failed and was reported
\* and whose later call succeeded and wrote
C20_Witness ==
  /\ c_pc = "done"
  /\ Len(successful) >= 2
  /\ Reported(1)
  /\ ~Reported(2)
  /\ c_calls[2] \in written
  /\ error_count >= 1
  /\ success_count >= 1

\* the keys the program has recorded as written to the catalog: after a
\* call that returned the loop does success_count += 1 and nothing else, and
\* no other line of the program stores a key, a title or a time of a write
LedgerKeys == {}

\* C25 as claimed: an entry of the ledger is upserted for each item the
\* commit step has written: the key of every call of the loop that
\* returned is a key of the ledger.
C25_LedgerHoldsWrittenKeys ==
  c_pc \in {"loop", "calling", "done"} =>
    \A i \in 1..Returned : ~Reported(i) => c_calls[i] \in LedgerKeys

\* C21 as claimed: over repeated presses of the commit button the
\* description of an accepted result is written to the catalog at most once:
\* no PATCH of the commit loop is applied for a key whose description of the
\* same stored result is already written.
C21_WrittenAtMostOnce ==
  [][(c_pc = "calling" /\ u_pc = "patch" /\ u_patch'.sent
        /\ PatchResult(u_patch'.status) = "True")
       => u_sku \notin written]_vars

\* C22 as claimed: the commit step writes exactly the results without error
\* that are marked in the selection: every call of the commit loop is for a
\* result without error whose key the operator has left selected, and once
\* the loop has ended every selected result without error was called.
C22_WritesExactlySelected ==
  c_pc \in {"loop", "calling", "done"} =>
    /\ \A i \in 1..Len(c_calls) :
         /\ c_calls[i] \in bulk_selected_products
         /\ \E j \in 1..Len(bulk_results) :
              bulk_results[j].sku = c_calls[i] /\ ~Truthy(bulk_results[j].error)
    /\ c_pc = "done" =>
         \A j \in 1..Len(bulk_results) :
           (~Truthy(bulk_results[j].error)
              /\ bulk_results[j].sku \in bulk_selected_products)
             => \E i \in 1..Len(c_calls) : c_calls[i] = bulk_results[j].sku

(***************************************************************************)
(* Properties of the bulk run (Spec), continued.                           *)
(***************************************************************************)
\* C30: a press of the button "Przeredaguj ten" keeps the number of stored
\* results; when the token was obtained and the new result is without
\* error, the slot of a result without error with the same key holds the
\* new result and every other slot is as before; otherwise (the token
\* request raised, or the new result has its error set) the whole list is
\* as before.
C30_RegenerateChangesOnlyItsSlot ==
  [][LET ok == /\ akeneo_get_token(token_resp').kind = "return"
               /\ ~Truthy(f_result'.error)
     IN /\ Len(bulk_results') = Len(bulk_results)
        /\ ok => \E idx \in 1..Len(bulk_results) :
                   /\ bulk_results[idx].sku = f_result'.sku
                   /\ ~Truthy(bulk_results[idx].error)
                   /\ bulk_results' = [bulk_results EXCEPT ![idx] = f_result']
        /\ ~ok => bulk_results' = bulk_results]_vars

\* of two stored results one has been replaced by a new result without
\* error for its key, and the other, an error, is as the run stored it
C30_Witness ==
  /\ b_pc = "done"
  /\ Len(bulk_results) = 2
  /\ token_resp.status = 200
  /\ \E i, j \in 1..2 :
       /\ i # j
       /\ bulk_results[i] = f_result
       /\ f_result.error = None
       /\ f_result # ResultOf(i, "success")
       /\ bulk_results[j] = ResultOf(j, "error")

\* C27: once the tasks of a run are being dispatched the run is not
\* aborted; a task whose catalog request or provider call timed out ends
\* with its own error result and raises nothing; every dispatched task
\* ends; and the run comes to store one result for each of its keys.
C27_BatchEventuallyFinishes ==
  /\ [](b_pc = "failed" => Submitted = {})
  /\ [](\A k \in Ended :
          (task[k].resp.fault = "Timeout"
             \/ task[k].result.error = Str(BladText("Timeout")))
            => (Truthy(task[k].result.error) /\ ~task[k].raised))
  /\ \A k \in Skus :
       (task[k].pc = "queued") ~> (task[k].pc \in {"finished", "collected"})
  /\ (b_pc = "submit") ~>
       (b_pc = "done" /\ Len(bulk_results) = Cardinality(bulk_selected_products))

\* a finished run of two keys: the catalog request of one task timed out,
\* the provider call of the other timed out, both have their error result
C27_Witness ==
  /\ b_pc = "done"
  /\ Len(bulk_results) = 2
  /\ \E i, j \in 1..2 :
       /\ task[bulk_results[i].sku].resp.fault = "Timeout"
       /\ task[bulk_results[j].sku].generated
       /\ bulk_results[j].error = Str(BladText("Timeout"))
       /\ Truthy(bulk_results[i].error)

\* C29 as claimed: a bulk run that fails before any task is dispatched (the
\* token request raises) leaves the results stored by the earlier run as
\* they were.
C29_FailedRunKeepsResults ==
  b_pc = "failed" => bulk_results = PreviousResults

\* the keys of the results collected so far, in their order
CollectedKeys == [i \in 1..Len(results_temp) |-> results_temp[i].sku]

\* no task was dispatched and nothing was produced
NothingDispatched ==
  /\ \A k \in Skus : task[k] = NoTask
  /\ done_order = <<>>
  /\ results_temp = <<>>
  /\ bulk_results = <<>>
  /\ \A r \in b_requests : r.kind \notin {"GET product", "provider"}

C16_ProgressCountsCollected ==
  [][/\ progress' # progress =>
          /\ progress' = progress + 1
          /\ \E k \in Skus : task[k].pc = "finished" /\ task'[k].pc = "collected"
     /\ b_pc' \in {"token", "submit", "as_completed"} => progress' = 0
     /\ b_pc' \in {"collect", "done"} =>
          /\ progress' = Cardinality({k \in Skus : task'[k].pc = "collected"})
          /\ progress' = Len(skus') <=> \A k \in bulk_selected_products' :
                                          task'[k].pc = "collected"]_vars

\* a run of two or more keys that has collected every result
C16_Witness ==
  /\ b_pc = "done"
  /\ Len(skus) >= 2
  /\ progress = Len(skus)

\* C17 as claimed: the results are collected in the order in which the
\* tasks completed, each submitted key exactly once.
C17_CollectedInCompletionOrder ==
  /\ Len(results_temp) <= Len(done_order)
  /\ \A i \in 1..Len(results_temp) : results_temp[i].sku = done_order[i]
  /\ b_pc = "done" => Len(bulk_results) = Len(skus)

\* C17 amended: under every interleaving the collection holds each submitted
\* key at most once and, when the run is done, exactly once; the results of
\* the tasks that completed after as_completed began are in the order of
\* completion and follow the results of the tasks that were complete by
\* then, which come in no particular order.
C17_EachKeyOnceLateInOrder ==
  /\ \A i, j \in 1..Len(results_temp) :
       results_temp[i].sku = results_temp[j].sku => i = j
  /\ \A i \in 1..Len(results_temp) : task[results_temp[i].sku].pc = "collected"
  /\ b_pc \in {"collect", "done"} =>
       /\ \A i \in 1..Len(results_temp) :
            /\ i <= snap => CollectedKeys[i] \in Early
            /\ i > snap => CollectedKeys[i] = done_order[i]
  /\ b_pc = "done" =>
       /\ {bulk_results[i].sku : i \in 1..Len(bulk_results)} = bulk_selected_products
       /\ Len(bulk_results) = Cardinality(bulk_selected_products)
       /\ bulk_results = results_temp

\* a finished run in which two tasks completed before as_completed began and
\* were collected in the other order
C17_Witness ==
  /\ b_pc = "done"
  /\ snap >= 2
  /\ bulk_results[1].sku = done_order[2]
  /\ bulk_results[2].sku = done_order[1]

\* C19: the run sends only the token request, the detail requests and the
\* provider calls: no PATCH, and nothing of the catalog or of the write
\* path changes, whatever the tasks do.
C19_RunSendsNoWrite ==
  /\ \A r \in b_requests : r.kind \in {"POST token", "GET product", "provider"}
  /\ written = {}
  /\ present = {}
  /\ u_pc = "off"
  /\ ~u_patch.sent

\* a finished run with a generated description and with a failed task
C19_Witness ==
  /\ b_pc = "done"
  /\ \E i \in 1..Len(bulk_results) :
       /\ ~Truthy(bulk_results[i].error)
       /\ Truthy(bulk_results[i].description_html)
       /\ Request("provider", bulk_results[i].sku) \in b_requests
  /\ \E i \in 1..Len(bulk_results) : Truthy(bulk_results[i].error)

(***************************************************************************)
(* Properties of the worker pool (SpecPool).                               *)
(***************************************************************************)
\* C18: at most max_workers = 5 tasks are started and not finished, and one
\* task is submitted per key: no key twice, and every key once the
\* submission is over.
C18_AtMostFiveRunning ==
  /\ Cardinality(PoolRunning) <= max_workers
  /\ \A i, j \in 1..Len(p_futures) : p_futures[i] = p_futures[j] => i = j
  /\ \A i \in 1..Len(p_futures) : p_futures[i] = p_skus[i]
  /\ p_pc \in {"collect", "left"} => Len(p_futures) = Len(p_skus)

\* five tasks are running and a sixth waits for a worker
C18_Witness ==
  /\ Cardinality(PoolRunning) = max_workers
  /\ \E k \in PoolSkus : p_task[k] = "queued"


====
